---- MODULE Spec2Model ----
(***************************************************************************)
(* A model of coal.minirst: format_rst, its line preprocessor, the block   *)
(* parser parse_body with its matchers, and the render closures; of the    *)
(* item matchers of its lists called on their own; and of                  *)
(* coal.config.ConfigStore.                                                *)
(*                                                                         *)
(* A Python str is a sequence of one-character strings; a pre-processed    *)
(* line, the list [indent, text] of the code, is a record                  *)
(* [indent, text].  A value that may be None is a sequence of length 0     *)
(* (None) or 1 (the value).                                                *)
(***************************************************************************)
EXTENDS Integers, Sequences, FiniteSets, TLC

VARIABLES pc, source, lines, stack, blocks, args, out, calls, match, heap, stores,
          nested

vars ==
    <<pc, source, lines, stack, blocks, args, out, calls, match, heap, stores,
      nested>>

(***************************************************************************)
(* Characters and Python str methods.                                      *)
(***************************************************************************)
LowerAlpha == <<"a", "b", "c", "d", "e", "f", "g", "h", "i", "j", "k", "l", "m",
                "n", "o", "p", "q", "r", "s", "t", "u", "v", "w", "x", "y", "z">>

UpperAlpha == <<"A", "B", "C", "D", "E", "F", "G", "H", "I", "J", "K", "L", "M",
                "N", "O", "P", "Q", "R", "S", "T", "U", "V", "W", "X", "Y", "Z">>

Range(f) == {f[i] : i \in DOMAIN f}

Lowers == Range(LowerAlpha)

Uppers == Range(UpperAlpha)

Letters == Lowers \cup Uppers

Digits == {"0", "1", "2", "3", "4", "5", "6", "7", "8", "9"}

Alnum == Digits \cup Letters

\* \w without re.UNICODE or re.LOCALE
WordChars == Alnum \cup {"_"}

\* the whitespace of str.strip, str.lstrip and \s
Whitespace == {" ", "\t", "\n", "\r", "\f"}

\* the backquote character, which cannot be written in a string of a module
Backtick == "BACKQUOTE"

None == <<>>

Some(x) == <<x>>

\* G(x) for the local variable x == e, with e evaluated once
Let(e, G(_)) == G(e)

Min(a, b) == IF a < b THEN a ELSE b

Max(a, b) == IF a > b THEN a ELSE b

\* s[n:]
Drop(s, n) == SubSeq(s, Min(n, Len(s)) + 1, Len(s))

\* s[:n]
Take(s, n) == SubSeq(s, 1, Min(n, Len(s)))

\* n * " "
Spaces(n) == [i \in 1..n |-> " "]

StartsWith(s, p) == Len(p) <= Len(s) /\ SubSeq(s, 1, Len(p)) = p

EndsWith(s, p) == Len(p) <= Len(s) /\ SubSeq(s, Len(s) - Len(p) + 1, Len(s)) = p

\* the least element of a non-empty set of numbers
Least(S) == CHOOSE i \in S : \A j \in S : i <= j

\* the greatest element of a non-empty set of numbers
Greatest(S) == CHOOSE i \in S : \A j \in S : i >= j

\* the positions of s that hold no whitespace
Inked(s) == {i \in DOMAIN s : s[i] \notin Whitespace}

LStrip(s) ==
    IF Inked(s) = {} THEN <<>> ELSE SubSeq(s, Least(Inked(s)), Len(s))

RStrip(s) ==
    IF Inked(s) = {} THEN <<>> ELSE SubSeq(s, 1, Greatest(Inked(s)))

Strip(s) == RStrip(LStrip(s))

\* s.ljust(n)
LJust(s, n) == IF Len(s) >= n THEN s ELSE s \o Spaces(n - Len(s))

ToLower(c) ==
    IF c \in Uppers
    THEN LowerAlpha[CHOOSE i \in DOMAIN UpperAlpha : UpperAlpha[i] = c]
    ELSE c

ToUpper(c) ==
    IF c \in Lowers
    THEN UpperAlpha[CHOOSE i \in DOMAIN LowerAlpha : LowerAlpha[i] = c]
    ELSE c

LowerStr(s) == [i \in DOMAIN s |-> ToLower(s[i])]

\* sep.join(parts)
RECURSIVE Join(_, _)
Join(sep, parts) ==
    IF parts = <<>> THEN <<>>
    ELSE IF Len(parts) = 1 THEN parts[1]
    ELSE parts[1] \o sep \o Join(sep, Tail(parts))

\* the positions (from 1) at which p occurs in s
Occurrences(s, p) ==
    {i \in 1..(Len(s) - Len(p) + 1) : SubSeq(s, i, i + Len(p) - 1) = p}

\* s.find(p) != -1
Contains(s, p) == Occurrences(s, p) # {}

\* s.replace(old, new), for a non-empty old
RECURSIVE Replace(_, _, _)
Replace(s, old, new) ==
    IF ~Contains(s, old) THEN s
    ELSE SubSeq(s, 1, Least(Occurrences(s, old)) - 1) \o new
             \o Replace(Drop(s, Least(Occurrences(s, old)) - 1 + Len(old)), old, new)

\* s.splitlines(), for the line boundary "\n"
RECURSIVE SplitLines(_)
SplitLines(s) ==
    IF s = <<>> THEN <<>>
    ELSE IF ~Contains(s, <<"\n">>) THEN <<s>>
    ELSE <<SubSeq(s, 1, Least(Occurrences(s, <<"\n">>)) - 1)>>
             \o SplitLines(Drop(s, Least(Occurrences(s, <<"\n">>))))

(***************************************************************************)
(* Regular expressions.  A pattern is a record; Ends(r, s, p) is the       *)
(* sequence of the positions at which a match of r that starts at position *)
(* p of s (p characters consumed) can end, in the order in which the       *)
(* backtracking matcher of re tries them: the left alternative first, the  *)
(* longer repetition first.                                                *)
(***************************************************************************)
RSet(S) == [op |-> "set", set |-> S]

RNot(S) == [op |-> "nset", set |-> S]

RCat(a, b) == [op |-> "cat", a |-> a, b |-> b]

RAlt(a, b) == [op |-> "alt", a |-> a, b |-> b]

ROpt(a) == [op |-> "opt", a |-> a]

RStar(a) == [op |-> "star", a |-> a]

RPlus(a) == RCat(a, RStar(a))

\* $
REol == [op |-> "eol"]

\* (?=a)
RAhead(a) == [op |-> "ahead", a |-> a]

\* (?![S])
RNotAhead(S) == [op |-> "nahead", set |-> S]

\* (?<=[S])
RBehind(S) == [op |-> "behind", set |-> S]

\* (?<![S])
RNotBehind(S) == [op |-> "nbehind", set |-> S]

REmpty == [op |-> "empty"]

RECURSIVE RSeq(_)
RSeq(rs) ==
    IF rs = <<>> THEN REmpty
    ELSE IF Len(rs) = 1 THEN rs[1]
    ELSE RCat(rs[1], RSeq(Tail(rs)))

RECURSIVE RAny(_)
RAny(rs) == IF Len(rs) = 1 THEN rs[1] ELSE RAlt(rs[1], RAny(Tail(rs)))

RLit(str) == RSeq([i \in DOMAIN str |-> RSet({str[i]})])

\* a literal under re.IGNORECASE
RLitI(str) == RSeq([i \in DOMAIN str |-> RSet({ToLower(str[i]), ToUpper(str[i])})])

RECURSIVE Ends(_, _, _)
RECURSIVE EndsFrom(_, _, _)
EndsFrom(r, s, ps) ==
    IF ps = <<>> THEN <<>>
    ELSE Ends(r, s, Head(ps)) \o EndsFrom(r, s, Tail(ps))

Ends(r, s, p) ==
    CASE r.op = "empty" -> <<p>>
      [] r.op = "set" ->
            IF p < Len(s) /\ s[p + 1] \in r.set THEN <<p + 1>> ELSE <<>>
      [] r.op = "nset" ->
            IF p < Len(s) /\ s[p + 1] \notin r.set THEN <<p + 1>> ELSE <<>>
      [] r.op = "cat" -> EndsFrom(r.b, s, Ends(r.a, s, p))
      [] r.op = "alt" -> Ends(r.a, s, p) \o Ends(r.b, s, p)
      [] r.op = "opt" -> Ends(r.a, s, p) \o <<p>>
      [] r.op = "star" ->
            EndsFrom(r, s, SelectSeq(Ends(r.a, s, p), LAMBDA q : q > p)) \o <<p>>
      [] r.op = "eol" -> IF p = Len(s) THEN <<p>> ELSE <<>>
      [] r.op = "ahead" -> IF Ends(r.a, s, p) # <<>> THEN <<p>> ELSE <<>>
      [] r.op = "nahead" ->
            IF p < Len(s) /\ s[p + 1] \in r.set THEN <<>> ELSE <<p>>
      [] r.op = "behind" ->
            IF p > 0 /\ s[p] \in r.set THEN <<p>> ELSE <<>>
      [] r.op = "nbehind" ->
            IF p > 0 /\ s[p] \in r.set THEN <<>> ELSE <<p>>

\* the (start, stop) positions of group 1 in the matches of "pre(group)"
RECURSIVE GroupSpans(_, _, _)
GroupSpans(group, s, starts) ==
    IF starts = <<>> THEN <<>>
    ELSE Let(Ends(group, s, Head(starts)), LAMBDA g :
             [i \in DOMAIN g |-> [start |-> Head(starts), stop |-> g[i]]])
             \o GroupSpans(group, s, Tail(starts))

\* regex.match(s) for the pattern "pre(group)tail": None, or the first match
\* the matcher finds, with m.group(1) and m.end(0)
ReMatch(pre, group, tail, s) ==
    Let(GroupSpans(group, s, Ends(pre, s, 0)), LAMBDA g :
        LET ok == {i \in DOMAIN g : Ends(tail, s, g[i].stop) # <<>>}
        IN  IF ok = {} THEN None
            ELSE LET i == CHOOSE j \in ok : \A k \in ok : j <= k
                 IN  Some([group1 |-> SubSeq(s, g[i].start + 1, g[i].stop),
                           end |-> Head(Ends(tail, s, g[i].stop))]))

\* (?:$| ), one space where _bullet_re takes the run of spaces: the variant
\* C13 is tested against
BulletTailOne == RAlt(REol, RSet({" "}))

\* (?:$| +)
bullet_tail == RAlt(REol, RPlus(RSet({" "})))

\* (-|[0-9A-Za-z]+\.|\(?[0-9A-Za-z]+\)|\|)
bullet_group ==
    RAny(<<RSet({"-"}),
           RCat(RPlus(RSet(Alnum)), RSet({"."})),
           RSeq(<<ROpt(RSet({"("})), RPlus(RSet(Alnum)), RSet({")"})>>),
           RSet({"|"})>>)

bullet_re(s) == ReMatch(REmpty, bullet_group, bullet_tail, s)

\* ^:(?![: ])([^:]*:)(?: *$| +), without the (?<! ) of _field_re: the variant
\* C15 is tested against
FieldNameSpaced(s) ==
    ReMatch(RCat(RSet({":"}), RNotAhead({":", " "})),
            RSeq(<<RStar(RNot({":"})), RSet({":"})>>),
            RAlt(RCat(RStar(RSet({" "})), REol), RPlus(RSet({" "}))),
            s)

\* ^:(?![: ])([^:]*(?<! ):)(?: *$| +)
field_re(s) ==
    ReMatch(RCat(RSet({":"}), RNotAhead({":", " "})),
            RSeq(<<RStar(RNot({":"})), RNotBehind({" "}), RSet({":"})>>),
            RAlt(RCat(RStar(RSet({" "})), REol), RPlus(RSet({" "}))),
            s)

\* --?[a-z-]+
option_flag ==
    RSeq(<<RSet({"-"}), ROpt(RSet({"-"})), RPlus(RSet(Lowers \cup {"-"}))>>)

\* (?:[ =][a-zA-Z][\w-]*)?
option_arg ==
    ROpt(RSeq(<<RSet({" ", "="}), RSet(Letters), RStar(RSet(WordChars \cup {"-"}))>>))

\* _option_re with one space or more, where it takes two or more, before
\* the description: the variant C14 is tested against
OptionOneSpace(s) ==
    ReMatch(REmpty,
            RSeq(<<option_flag, option_arg,
                   RStar(RSeq(<<ROpt(RSet({","})), RStar(RSet({" "})),
                                option_flag, option_arg>>))>>),
            RAlt(RCat(RStar(RSet({" "})), REol), RPlus(RSet({" "}))),
            s)

option_re(s) ==
    ReMatch(REmpty,
            RSeq(<<option_flag, option_arg,
                   RStar(RSeq(<<ROpt(RSet({","})), RStar(RSet({" "})),
                                option_flag, option_arg>>))>>),
            RAlt(RCat(RStar(RSet({" "})), REol),
                 RSeq(<<RSet({" "}), RSet({" "}), RStar(RSet({" "}))>>)),
            s)

admonitions ==
    <<[key |-> <<"a", "t", "t", "e", "n", "t", "i", "o", "n">>,
       title |-> <<"A", "t", "t", "e", "n", "t", "i", "o", "n", ":">>],
      [key |-> <<"c", "a", "u", "t", "i", "o", "n">>,
       title |-> <<"C", "a", "u", "t", "i", "o", "n", ":">>],
      [key |-> <<"d", "a", "n", "g", "e", "r">>,
       title |-> <<"D", "a", "n", "g", "e", "r", "!">>],
      [key |-> <<"e", "r", "r", "o", "r">>,
       title |-> <<"E", "r", "r", "o", "r", ":">>],
      [key |-> <<"h", "i", "n", "t">>,
       title |-> <<"H", "i", "n", "t", ":">>],
      [key |-> <<"i", "m", "p", "o", "r", "t", "a", "n", "t">>,
       title |-> <<"I", "m", "p", "o", "r", "t", "a", "n", "t", ":">>],
      [key |-> <<"n", "o", "t", "e">>,
       title |-> <<"N", "o", "t", "e", ":">>],
      [key |-> <<"t", "i", "p">>,
       title |-> <<"T", "i", "p", ":">>],
      [key |-> <<"w", "a", "r", "n", "i", "n", "g">>,
       title |-> <<"W", "a", "r", "n", "i", "n", "g", "!">>]>>

\* _admonitions[k]
AdmonitionTitle(k) ==
    admonitions[CHOOSE i \in DOMAIN admonitions : admonitions[i].key = k].title

\* \.\. (attention|...|warning):: *   under re.IGNORECASE
admonition_re(s) ==
    ReMatch(RLit(<<".", ".", " ">>),
            RAny([i \in DOMAIN admonitions |-> RLitI(admonitions[i].key)]),
            RCat(RLit(<<":", ":">>), RStar(RSet({" "}))),
            s)

(***************************************************************************)
(* util.wrap: textwrap.fill of Python 2 with its default options.          *)
(***************************************************************************)
\* TextWrapper.wordsep_re:
\*   (\s+|[^\s\w]*\w+[^0-9\W]-(?=\w+[^0-9\W])|(?<=[\w\!\"\'\&\.\,\?])-{2,}(?=\w))
wordsep_re ==
    LET letter == RSet(Letters \cup {"_"})
        word == RSet(WordChars)
    IN  RAny(<<RPlus(RSet(Whitespace)),
               RSeq(<<RStar(RNot(Whitespace \cup WordChars)), RPlus(word), letter,
                      RSet({"-"}), RAhead(RCat(RPlus(word), letter))>>),
               RSeq(<<RBehind(WordChars \cup {"!", "\"", "'", "&", ".", ",", "?"}),
                      RSet({"-"}), RPlus(RSet({"-"})), RAhead(word)>>)>>)

\* TextWrapper._munge_whitespace (replace_whitespace; the texts hold no tab)
MungeWhitespace(text) ==
    [i \in DOMAIN text |-> IF text[i] \in Whitespace THEN " " ELSE text[i]]

\* the positions from p on at which wordsep_re matches in text
Separators(text, p) ==
    {q \in p..(Len(text) - 1) : Ends(wordsep_re, text, q) # <<>>}

\* the chunk text[p:q], unless it is empty
Chunk(text, p, q) == IF q > p THEN <<SubSeq(text, p + 1, q)>> ELSE <<>>

\* TextWrapper._split: wordsep_re.split(text) without the empty chunks, for
\* the text from position p on
RECURSIVE SplitChunks(_, _)
SplitChunks(text, p) ==
    Let(Separators(text, p), LAMBDA seps :
        IF seps = {} THEN Chunk(text, p, Len(text))
        ELSE Let(Least(seps), LAMBDA q :
             Let(Head(Ends(wordsep_re, text, q)), LAMBDA e :
                 Chunk(text, p, q) \o <<SubSeq(text, q + 1, e)>>
                     \o SplitChunks(text, e))))

\* the inner loop of _wrap_chunks: the chunks that fit on the current line
RECURSIVE FillLine(_, _, _, _)
FillLine(chunks, cur_line, cur_len, width) ==
    IF chunks # <<>> /\ cur_len + Len(Head(chunks)) <= width
    THEN FillLine(Tail(chunks), Append(cur_line, Head(chunks)),
                  cur_len + Len(Head(chunks)), width)
    ELSE [chunks |-> chunks, cur_line |-> cur_line, cur_len |-> cur_len]

\* TextWrapper._wrap_chunks (break_long_words, drop_whitespace)
RECURSIVE WrapChunks(_, _, _, _, _)
WrapChunks(chunks, wlines, width_, initial_indent, subsequent_indent) ==
    IF chunks = <<>> THEN wlines
    ELSE
      LET indent == IF wlines # <<>> THEN subsequent_indent ELSE initial_indent
          width == width_ - Len(indent)
          chunks1 == IF Strip(Head(chunks)) = <<>> /\ wlines # <<>>
                     THEN Tail(chunks) ELSE chunks
      IN  Let(FillLine(chunks1, <<>>, 0, width), LAMBDA f :
      LET long == f.chunks # <<>> /\ Len(Head(f.chunks)) > width
          space_left == IF width < 1 THEN 1 ELSE width - f.cur_len
          cur_line1 == IF long THEN Append(f.cur_line, Take(Head(f.chunks), space_left))
                       ELSE f.cur_line
          chunks2 == IF long
                     THEN <<Drop(Head(f.chunks), space_left)>> \o Tail(f.chunks)
                     ELSE f.chunks
          cur_line2 == IF cur_line1 # <<>> /\ Strip(cur_line1[Len(cur_line1)]) = <<>>
                       THEN SubSeq(cur_line1, 1, Len(cur_line1) - 1)
                       ELSE cur_line1
          wlines1 == IF cur_line2 # <<>>
                     THEN Append(wlines, indent \o Join(<<>>, cur_line2))
                     ELSE wlines
      IN  WrapChunks(chunks2, wlines1, width_, initial_indent, subsequent_indent))

\* util.wrap(s, width, indent, subindent), for width > 0
wrap(s, width, indent, subindent) ==
    Join(<<"\n">>,
         WrapChunks(SplitChunks(MungeWhitespace(s), 0), <<>>,
                    width, indent, subindent))

\* minirst._wrap, called without subindent
Wrap(s, width, indent) == wrap(s, width, indent, indent)

(***************************************************************************)
(* Lines and the block extractors.                                         *)
(***************************************************************************)
Line(indent, text) == [indent |-> indent, text |-> text]

\* format_rst: the loop over src.splitlines()
SourceLines(text) ==
    LET raw == SplitLines(text)
    IN  [i \in DOMAIN raw |->
            LET line_ == LStrip(raw[i])
            IN  Line(IF line_ # <<>> THEN Len(raw[i]) - Len(line_) ELSE 0, line_)]

RECURSIVE MinOf(_)
MinOf(ns) ==
    IF Len(ns) = 1 THEN ns[1] ELSE Min(ns[1], MinOf(Tail(ns)))

\* format_rst: lines 422-429.  min() of an empty sequence raises ValueError.
PreprocessLines(text) ==
    Let(SourceLines(text), LAMBDA ls :
        LET content == SelectSeq(ls, LAMBDA l : l.text # <<>>)
        IN  IF ls = <<>> THEN [error |-> "", lines |-> <<>>]
            ELSE IF content = <<>> THEN [error |-> "ValueError", lines |-> ls]
            ELSE Let(MinOf([i \in DOMAIN content |-> content[i].indent]),
                     LAMBDA shared_indent :
                         [error |-> "",
                          lines |-> [i \in DOMAIN ls |->
                                       Line(ls[i].indent - shared_indent,
                                            ls[i].text)]]))

\* simple_block: the lines up to the first blank line, and the rest
SimpleBlock(lns) ==
    LET blank == {i \in DOMAIN lns : lns[i].text = <<>>}
    IN  IF blank = {} THEN [block |-> lns, src |-> <<>>]
        ELSE LET i == CHOOSE j \in blank : \A k \in blank : j <= k
             IN  [block |-> SubSeq(lns, 1, i - 1), src |-> SubSeq(lns, i, Len(lns))]

\* the while loop of nested_block ended by a blank line as well: the variant
\* C21 is tested against
RECURSIVE ScanToBlank(_, _, _)
ScanToBlank(lns, end, indent) ==
    IF end < Len(lns)
    THEN LET line == lns[end + 1]
         IN  IF line.text # <<>>
             THEN IF line.indent < 1
                  THEN [end |-> end, indent |-> indent]
                  ELSE ScanToBlank(lns, end + 1,
                                   IF indent = None THEN Some(line.indent)
                                   ELSE Some(Min(indent[1], line.indent)))
             ELSE [end |-> end, indent |-> indent]
    ELSE [end |-> end, indent |-> indent]

\* nested_block: the while loop (end counts the lines taken, indent is None
\* or the least indent of the non-blank lines seen)
RECURSIVE ScanNested(_, _, _)
ScanNested(lns, end, indent) ==
    IF end < Len(lns)
    THEN LET line == lns[end + 1]
         IN  IF line.text # <<>>
             THEN IF line.indent < 1
                  THEN [end |-> end, indent |-> indent]
                  ELSE ScanNested(lns, end + 1,
                                  IF indent = None THEN Some(line.indent)
                                  ELSE Some(Min(indent[1], line.indent)))
             ELSE ScanNested(lns, end + 1, indent)
    ELSE [end |-> end, indent |-> indent]

RECURSIVE PopLeadingBlank(_)
PopLeadingBlank(block) ==
    IF block # <<>> /\ Head(block).text = <<>>
    THEN PopLeadingBlank(Tail(block)) ELSE block

RECURSIVE PopTrailingBlank(_)
PopTrailingBlank(block) ==
    IF block # <<>> /\ block[Len(block)].text = <<>>
    THEN PopTrailingBlank(SubSeq(block, 1, Len(block) - 1)) ELSE block

\* nested_block that sets the indent of the lines it leaves in src to 0: the
\* variant C20 is tested against
NestedFlattensRest(lns, shift_first, strip_indent) ==
    Let(ScanNested(lns, IF shift_first # None THEN 1 ELSE 0, None), LAMBDA scan :
    LET end == Min(scan.end, Len(lns))
        block0 == SubSeq(lns, 1, end)
        rest == SubSeq(lns, end + 1, Len(lns))
        by == IF scan.indent # None /\ scan.indent[1] # 0 /\ strip_indent
              THEN scan.indent[1] ELSE 0
        block1 == [i \in DOMAIN block0 |->
                      Line(block0[i].indent - by, block0[i].text)]
        block2 == IF shift_first # None /\ block1 # <<>>
                  THEN <<Line(0, Drop(block1[1].text, shift_first[1]))>> \o Tail(block1)
                  ELSE block1
    IN  [block |-> PopTrailingBlank(PopLeadingBlank(block2)),
         src |-> [i \in DOMAIN rest |-> Line(0, rest[i].text)]])

\* nested_block that leaves the indents of the block as they are in src: the
\* variant C22 is tested against
NestedAbsolute(lns, shift_first, strip_indent) ==
    Let(ScanNested(lns, IF shift_first # None THEN 1 ELSE 0, None), LAMBDA scan :
    LET end == Min(scan.end, Len(lns))
        block0 == SubSeq(lns, 1, end)
        rest == SubSeq(lns, end + 1, Len(lns))
        block2 == IF shift_first # None /\ block0 # <<>>
                  THEN <<Line(0, Drop(block0[1].text, shift_first[1]))>> \o Tail(block0)
                  ELSE block0
    IN  [block |-> PopTrailingBlank(PopLeadingBlank(block2)), src |-> rest])

\* nested_block(src, shift_first, strip_indent); shift_first is None or Some(n)
NestedBlock(lns, shift_first, strip_indent) ==
    Let(ScanNested(lns, IF shift_first # None THEN 1 ELSE 0, None), LAMBDA scan :
    LET end == Min(scan.end, Len(lns))
        block0 == SubSeq(lns, 1, end)
        rest == SubSeq(lns, end + 1, Len(lns))
        by == IF scan.indent # None /\ scan.indent[1] # 0 /\ strip_indent
              THEN scan.indent[1] ELSE 0
        block1 == [i \in DOMAIN block0 |->
                      Line(block0[i].indent - by, block0[i].text)]
        block2 == IF shift_first # None /\ block1 # <<>>
                  THEN <<Line(0, Drop(block1[1].text, shift_first[1]))>> \o Tail(block1)
                  ELSE block1
    IN  [block |-> PopTrailingBlank(PopLeadingBlank(block2)), src |-> rest])

(***************************************************************************)
(* Inline markup.                                                          *)
(***************************************************************************)
inline_code(s) == <<"\"">> \o s \o <<"\"">>

\* the match of "pre([\w ]+)tail" at the start of s
MatchInterpreted(pre, tail, s) ==
    ReMatch(RLit(pre), RPlus(RSet(WordChars \cup {" "})), RLit(tail), s)

\* the positions of s (characters skipped) at which "pre([\w ]+)tail" matches
Interpreted(pre, tail, s) ==
    {q \in 0..(Len(s) - 1) : MatchInterpreted(pre, tail, Drop(s, q)) # None}

\* re.sub("pre([\w ]+)tail", interpret, s)
RECURSIVE SubInterpreted(_, _, _)
SubInterpreted(pre, tail, s) ==
    Let(Interpreted(pre, tail, s), LAMBDA found :
        IF found = {} THEN s
        ELSE Let(Least(found), LAMBDA q :
             Let(MatchInterpreted(pre, tail, Drop(s, q)), LAMBDA m :
                 Take(s, q) \o inline_code(m[1].group1)
                     \o SubInterpreted(pre, tail, Drop(s, q + m[1].end)))))

\* _parse_interpreted, for the one handler "code"
ParseInterpreted(s) ==
    SubInterpreted(<<Backtick>>, <<Backtick, ":", "c", "o", "d", "e", ":">>,
                   SubInterpreted(<<":", "c", "o", "d", "e", ":", Backtick>>,
                                  <<Backtick>>, s))

\* _parse_inline
ParseInline(block) ==
    ParseInterpreted(Replace(Join(<<" ">>, [i \in DOMAIN block |-> block[i].text]),
                             <<Backtick, Backtick>>, <<"\"">>))

(***************************************************************************)
(* The block parsers.  A parse function returns the tuple (matched, block, *)
(* src) of the code as a record; block is None or the data its render      *)
(* closure captures.  A parse function that calls parse_body on a nested   *)
(* block is taken up to that call: its result is then the call (nested,    *)
(* the lines handed to parse_body) with the local variables the function   *)
(* needs when the call returns (caller), src being the lines left after    *)
(* the nested block.                                                       *)
(***************************************************************************)
Decline(lns) == [matched |-> FALSE, call |-> FALSE, block |-> None, src |-> lns]

Matched(block, lns) == [matched |-> TRUE, call |-> FALSE, block |-> block, src |-> lns]

\* content = parse_body(nested), for the result nb of nested_block; the
\* caller keeps the lines after the nested block as its src
ParseBodyCall(nb, caller) ==
    [matched |-> TRUE, call |-> TRUE, nested |-> nb.block, src |-> nb.src,
     caller |-> [caller EXCEPT !.src = nb.src]]

\* parse_blank without its src.pop(0): the variant C2 is tested against
BlankKept(lns) ==
    IF lns[1].text # <<>> THEN Decline(lns)
    ELSE Matched(None, lns)

ParseBlank(lns) ==
    IF lns[1].text # <<>> THEN Decline(lns)
    ELSE Matched(None, Tail(lns))

ParseNested(lns) ==
    IF lns[1].indent = 0 THEN Decline(lns)
    ELSE ParseBodyCall(NestedBlock(lns, None, TRUE), [fn |-> "parse_nested", src |-> <<>>])

ContainerMarker ==
    <<".", ".", " ", "c", "o", "n", "t", "a", "i", "n", "e", "r", ":", ":">>

ParseContainer(lns) ==
    IF ~(Len(lns) > 2 /\ lns[2].text = <<>>
            /\ StartsWith(lns[1].text, ContainerMarker))
    THEN Decline(lns)
    ELSE ParseBodyCall(NestedBlock(Tail(lns), None, TRUE),
                       [fn |-> "parse_container",
                        name |-> Strip(Drop(lns[1].text, 14)), src |-> <<>>])

\* parse_admonition, for the result m of admonition_re.match
AdmonitionMatched(m, lns) ==
    IF m = None THEN Decline(lns)
    ELSE ParseBodyCall(NestedBlock(lns, Some(m[1].end), TRUE),
                       [fn |-> "parse_admonition",
                        title |-> AdmonitionTitle(LowerStr(m[1].group1)),
                        src |-> <<>>])

ParseAdmonition(lns) == AdmonitionMatched(admonition_re(lns[1].text), lns)

ListItemMatch(key, offset) == Some([key |-> key, offset |-> offset])

\* match_list(item_re, src), with item_re.match given as m
match_list(m) ==
    IF m = None THEN None ELSE ListItemMatch(m[1].group1, m[1].end)

match_bullet(lns) == match_list(bullet_re(lns[1].text))

match_option(lns) == match_list(option_re(lns[1].text))

match_field(lns) == match_list(field_re(lns[1].text))

match_definition(lns) ==
    IF Len(lns) > 1 /\ lns[1].indent < lns[2].indent
    THEN ListItemMatch(lns[1].text, Len(lns[1].text))
    ELSE None

\* item_match(src), for the four item matchers
ItemMatch(item_match, lns) ==
    CASE item_match = "match_bullet" -> match_bullet(lns)
      [] item_match = "match_option" -> match_option(lns)
      [] item_match = "match_field" -> match_field(lns)
      [] item_match = "match_definition" -> match_definition(lns)

\* parse_list: the body of the loop "while m" up to its parse_body call, for
\* the item match m and the local variables list of parse_list
ListItem(m, lns, list) ==
    ParseBodyCall(NestedBlock(lns, Some(m[1].offset), TRUE),
                  [list EXCEPT !.key = m[1].key])

\* parse_list: lines 220-223 (max_keywidth is None or Some(n))
ListMatched(m, item_match, lns, max_keywidth, min_space, vspace) ==
    IF m = None THEN Decline(lns)
    ELSE ListItem(m, lns,
                  [fn |-> "parse_list", item_match |-> item_match,
                   max_keywidth |-> max_keywidth, min_space |-> min_space,
                   vspace |-> vspace, items |-> <<>>, key |-> <<>>,
                   src |-> <<>>])

ParseList(item_match, lns, max_keywidth, min_space, vspace) ==
    ListMatched(ItemMatch(item_match, lns), item_match, lns, max_keywidth,
                min_space, vspace)

\* parse_bullet with vspace=True: the variant C7 is tested against
BulletSpaced(lns) == ParseList("match_bullet", lns, None, 1, TRUE)

ParseBullet(lns) == ParseList("match_bullet", lns, None, 1, FALSE)

ParseOption(lns) == ParseList("match_option", lns, Some(14), 2, FALSE)

ParseField(lns) == ParseList("match_field", lns, Some(14), 2, FALSE)

\* parse_definition without max_keywidth: the variant C9 is tested against
DefinitionUncapped(lns) == ParseList("match_definition", lns, None, 2, TRUE)

ParseDefinition(lns) == ParseList("match_definition", lns, Some(2), 2, TRUE)

LiteralMarker == <<":", ":">>

\* lines 339-346 with the last branch for every text: the variant C27 is
\* tested against
StripColon(para) == Some(Take(para, Len(para) - 1))

\* parse_paragraph: lines 339-346, the text left of a paragraph ending in "::"
StripMarker(para) ==
    IF para = LiteralMarker THEN None
    ELSE IF EndsWith(para, <<" ">> \o LiteralMarker)
    THEN Some(Take(para, Len(para) - 3))
    ELSE Some(Take(para, Len(para) - 1))

\* parse_paragraph: lines 338-347, for the inline-parsed text para of the
\* block sb
ParagraphParsed(para, sb) ==
    IF EndsWith(para, LiteralMarker)
    THEN Matched(Some([kind |-> "paragraph", para |-> StripMarker(para),
                       literal |-> Some(NestedBlock(sb.src, None, TRUE).block)]),
                 NestedBlock(sb.src, None, TRUE).src)
    ELSE Matched(Some([kind |-> "paragraph", para |-> Some(para),
                       literal |-> None]),
                 sb.src)

\* parse_paragraph: lines 334-337, for the result sb of simple_block
ParagraphBlock(sb) ==
    IF sb.block = <<>> THEN Decline(sb.src)
    ELSE ParagraphParsed(ParseInline(sb.block), sb)

ParseParagraph(lns) == ParagraphBlock(SimpleBlock(lns))

\* _transitions without the paragraph catch-all: the variant C1 is tested
\* against
NoCatchAll ==
    <<"parse_blank", "parse_nested", "parse_container", "parse_admonition",
      "parse_bullet", "parse_option", "parse_field", "parse_definition">>

\* _transitions with parse_definition before the other lists: the variant
\* C17 is tested against
DefinitionBeforeLists ==
    <<"parse_blank", "parse_nested", "parse_container", "parse_admonition",
      "parse_definition", "parse_bullet", "parse_option", "parse_field",
      "parse_paragraph">>

transitions ==
    <<"parse_blank", "parse_nested", "parse_container", "parse_admonition",
      "parse_bullet", "parse_option", "parse_field", "parse_definition",
      "parse_paragraph">>

\* t(src) for t in _transitions
Apply(t, lns) ==
    CASE t = "parse_blank" -> ParseBlank(lns)
      [] t = "parse_nested" -> ParseNested(lns)
      [] t = "parse_container" -> ParseContainer(lns)
      [] t = "parse_admonition" -> ParseAdmonition(lns)
      [] t = "parse_bullet" -> ParseBullet(lns)
      [] t = "parse_option" -> ParseOption(lns)
      [] t = "parse_field" -> ParseField(lns)
      [] t = "parse_definition" -> ParseDefinition(lns)
      [] t = "parse_paragraph" -> ParseParagraph(lns)

RECURSIVE Transition(_, _)

\* parse_body: lines 401-405, for the result r of the i-th transition
Tried(r, i) ==
    IF r.matched THEN Some(r) ELSE Transition(r.src, i + 1)

\* parse_body: the for loop over _transitions from the i-th on, with its
\* else clause; None stands for raise RSTParseError
Transition(lns, i) ==
    IF i > Len(transitions) THEN None
    ELSE Tried(Apply(transitions[i], lns), i)

\* the closure a parse function returns once its parse_body call has
\* returned body
Closure(caller, body) ==
    CASE caller.fn = "parse_nested" -> [kind |-> "nested", content |-> body]
      [] caller.fn = "parse_container" ->
            [kind |-> "container", name |-> caller.name, body |-> body]
      [] caller.fn = "parse_admonition" ->
            [kind |-> "admonition", title |-> caller.title, body |-> body]

RECURSIVE MaxOf(_)
MaxOf(ns) ==
    IF Len(ns) = 1 THEN ns[1] ELSE Max(ns[1], MaxOf(Tail(ns)))

\* the key column of a list without the cap max_keywidth: the variant C24 is
\* tested against
KeyWidthUncapped(items, max_keywidth, min_space) ==
    MaxOf([i \in DOMAIN items |-> Len(items[i].key)]) + min_space

\* the key column of a list: lines 229-231
KeyWidth(items, max_keywidth, min_space) ==
    LET keywidth == MaxOf([i \in DOMAIN items |-> Len(items[i].key)]) + min_space
    IN  IF max_keywidth # None THEN Min(keywidth, max_keywidth[1]) ELSE keywidth

\* the closure list_ that parse_list returns: lines 229-249
ListClosure(list, items) ==
    [kind |-> "list", items |-> items,
     keywidth |-> KeyWidth(items, list.max_keywidth, list.min_space),
     min_space |-> list.min_space, vspace |-> list.vspace]

(***************************************************************************)
(* The render closures.  keep is None (the keyword is absent or None) or   *)
(* Some(set of container names).  A block renders to Some(string) or, for  *)
(* a container that is not kept, None.                                     *)
(***************************************************************************)
RECURSIVE Body(_, _, _, _)
RECURSIVE RenderBlocks(_, _, _, _)
RECURSIVE RenderBlock(_, _, _, _)
RECURSIVE ListResult(_, _, _, _, _, _)

\* literal_line without the relative indent l[0]: the variant C8 is tested
\* against
LiteralFlat(indent, l) ==
    IF l.text # <<>> THEN indent \o <<" ", " ">> \o l.text ELSE <<>>

\* parse_paragraph.literal_line
LiteralLine(indent, l) ==
    IF l.text # <<>> THEN indent \o <<" ", " ">> \o Spaces(l.indent) \o l.text
    ELSE <<>>

\* parse_paragraph.paragraph
Paragraph(b, width, indent) ==
    LET first == IF b.para # None /\ b.para[1] # <<>>
                 THEN <<Wrap(b.para[1], width, indent)>> ELSE <<>>
        second == IF b.literal # None /\ b.literal[1] # <<>>
                  THEN <<Join(<<"\n">>,
                              [i \in DOMAIN b.literal[1] |->
                                  LiteralLine(indent, b.literal[1][i])])>>
                  ELSE <<>>
    IN  Join(<<"\n", "\n">>, first \o second)

\* parse_nested.body
NestedBody(b, width, indent, keep) ==
    Body(b.content, width, indent \o <<" ", " ">>, keep)

\* container without its test of keep: the variant C4 is tested against
ContainerShown(b, width, indent, keep) ==
    Some(Body(b.body, width, indent, keep))

\* container that returns "" where the code returns None: the variant C11 is
\* tested against
ContainerBlank(b, width, indent, keep) ==
    IF keep = None \/ b.name \in keep[1]
    THEN Some(Body(b.body, width, indent, keep))
    ELSE Some(<<>>)

\* parse_container.container
Container(b, width, indent, keep) ==
    IF keep = None \/ b.name \in keep[1]
    THEN Some(Body(b.body, width, indent, keep))
    ELSE None

\* admonition that renders its body at the indent of its title: the variant
\* C28 is tested against
AdmonitionFlat(b, width, indent, keep) ==
    indent \o b.title \o <<"\n">> \o Body(b.body, width, indent, keep)

\* parse_admonition.admonition
Admonition(b, width, indent, keep) ==
    indent \o b.title \o <<"\n">> \o Body(b.body, width, indent \o <<" ", " ">>, keep)

\* parse_list.list_: the loop over the items not yet rendered
ListResult(b, items, result, width, indent, keep) ==
    IF items = <<>> THEN result
    ELSE LET item == Head(items)
             hanging == indent \o Spaces(b.keywidth)
             offset == Len(indent) + b.keywidth
             gap == IF result # <<>>
                        /\ (b.vspace \/ Contains(result[Len(result)], <<"\n", "\n">>))
                    THEN <<(<<>>)>> ELSE <<>>
         IN  Let(Body(item.body, width, hanging, keep), LAMBDA content :
                 ListResult(b, Tail(items),
                            result \o gap
                                \o <<IF Len(item.key) + b.min_space > b.keywidth
                                      THEN indent \o item.key \o <<"\n">> \o content
                                      ELSE indent \o LJust(item.key, b.keywidth)
                                               \o Drop(content, offset)>>,
                            width, indent, keep))

\* list_ that does not hand **kw to its items: the variant C3 is tested
\* against
ListUnfiltered(b, width, indent, keep) ==
    Join(<<"\n">>, ListResult(b, b.items, <<>>, width, indent, None))

\* parse_list.list_
List_(b, width, indent, keep) ==
    Join(<<"\n">>, ListResult(b, b.items, <<>>, width, indent, keep))

\* b(width, indent, **kw) for a block b of parse_body
RenderBlock(b, width, indent, keep) ==
    CASE b.kind = "paragraph" -> Some(Paragraph(b, width, indent))
      [] b.kind = "nested" -> Some(NestedBody(b, width, indent, keep))
      [] b.kind = "container" -> Container(b, width, indent, keep)
      [] b.kind = "admonition" -> Some(Admonition(b, width, indent, keep))
      [] b.kind = "list" -> Some(List_(b, width, indent, keep))

\* parse_body.body: the list result
RenderBlocks(blks, width, indent, keep) ==
    IF blks = <<>> THEN <<>>
    ELSE RenderBlock(Head(blks), width, indent, keep)
             \o RenderBlocks(Tail(blks), width, indent, keep)

\* parse_body.body
Body(blks, width, indent, keep) ==
    Join(<<"\n", "\n">>, RenderBlocks(blks, width, indent, keep))

(***************************************************************************)
(* The sources format_rst is given.  A source is the text of its lines,    *)
(* each ended by a newline.  The general family has every sequence of up   *)
(* to MaxLines lines of GeneralLines.  The nested family puts up to        *)
(* MaxBody lines after an opening (a container, an admonition, a list      *)
(* item, a definition term or an indented paragraph) and, optionally, an   *)
(* inner container, so that blocks and containers nest.  The literal       *)
(* family puts up to MaxLiteral lines of several indents after a           *)
(* paragraph that ends in "::", and the list family has up to MaxItems     *)
(* lines of items, terms and their bodies.                                 *)
(***************************************************************************)
MaxLines == 3

MaxBody == 2

MaxLiteral == 3

MaxItems == 3

MaxCalls == 2

SeqsUpTo(S, n) == UNION {[1..k -> S] : k \in 0..n}

RECURSIVE Unlines(_)
Unlines(ls) ==
    IF ls = <<>> THEN <<>> ELSE Head(ls) \o <<"\n">> \o Unlines(Tail(ls))

Verbose == <<"v", "e", "r", "b", "o", "s", "e">>

Other == <<"w">>

ContainerLine(name) == ContainerMarker \o <<" ">> \o name

GeneralLines == {<<>>, <<"a">>, <<" ", " ", "a">>, <<":", ":">>}

GeneralSources == {Unlines(ls) : ls \in SeqsUpTo(GeneralLines, MaxLines)}

Openings ==
    {<<ContainerLine(Verbose), <<>>>>, <<<<".", ".", " ", "n", "o", "t", "e", ":", ":">>, <<>>>>,
     <<<<"-", " ", "x">>, <<>>>>, <<<<"t">>>>, <<<<" ", " ", "p">>, <<>>>>}

InnerOpenings == {<<>>, <<<<" ", " ">> \o ContainerLine(Other), <<>>>>}

BodyLines ==
    {<<>>, <<" ", " ", "a">>, <<" ", " ", " ", " ", "b">>,
     <<" ", " ">> \o ContainerLine(Other), <<" ", " ", "-", " ", "c">>}

NestedSources ==
    {Unlines(o \o i \o ls) :
        o \in Openings, i \in InnerOpenings, ls \in SeqsUpTo(BodyLines, MaxBody)}

LiteralLines == {<<>>, <<" ", " ", "x">>, <<" ", " ", " ", " ", "y">>, <<"b">>}

LiteralSources ==
    {Unlines(<<<<"a", ":", ":">>, <<>>>> \o ls) : ls \in SeqsUpTo(LiteralLines, MaxLiteral)}

ItemLines ==
    {<<>>, <<"-", " ", "a">>, <<" ", " ", "d">>, <<"t">>, <<" ", " ", "-", " ", "e">>}

ListSources == {Unlines(ls) : ls \in SeqsUpTo(ItemLines, MaxItems)}

\* the sources of the examples
ExampleSources ==
    {Unlines(<<<<" ">>, <<>>>>),
     Unlines(<<ContainerLine(Verbose), <<>>, <<"H", "i", "d", "d", "e", "n", " ", "t", "e", "x", "t">>>>),
     Unlines(<<ContainerLine(Verbose), <<>>, <<" ", " ", "H", "i", "d", "d", "e", "n", " ", "t", "e", "x", "t">>>>),
     Unlines(<<<<"-", " ", "o", "n", "e">>, <<"-", " ", "t", "w", "o">>>>),
     Unlines(<<<<"-", " ", "a">>, <<>>, <<" ", " ", "d">>, <<"-", " ", "b", " ", "c">>>>),
     Unlines(<<<<"t", "e", "r", "m">>, <<" ", " ", "-", " ", "a">>, <<" ", " ", "-", " ", "b">>>>),
     Unlines(<<<<"t", "e", "r", "m">>, <<" ", " ", "d">>, <<"t">>, <<" ", " ", "d">>>>),
     Unlines(<<<<"t">>, <<" ", " ", "d">>, <<"-", " ", "a">>, <<" ", " ", "e">>>>),
     Unlines(<<<<"a">>, <<":", ":">>, <<>>, <<" ", " ", "x">>, <<"b">>>>)}

Sources ==
    GeneralSources \cup NestedSources \cup LiteralSources \cup ListSources
        \cup ExampleSources

Widths == {7, 80}

Indents == {<<>>, <<" ", " ">>}

Keeps == {None, Some({}), Some({Verbose}), Some({Other})}

(***************************************************************************)
(* format_rst as a state machine.  pc is the position in the call:         *)
(* "start", "parse" (in parse_body), "parsed" (the outermost parse_body    *)
(* has returned its closure), "done" (format_rst has returned out), or the *)
(* exception that left the call.  stack holds the active calls of          *)
(* parse_body, the innermost last: src and blocks are the variables of the *)
(* call, input the lines it was called on, caller the local variables of   *)
(* the parse function that made the call and waits for it.  pc =           *)
(* "unbounded" stands for a loop whose src did not get shorter or a call   *)
(* whose lines are not smaller (Size) than the lines of the calling        *)
(* parse_body.  blocks is what the closure of the outermost parse_body     *)
(* captures, args the (width, indent, keep) of the last call of the        *)
(* closure, and calls the calls made on it so far.                         *)
(***************************************************************************)
NoArgs == [width |-> 0, indent |-> <<>>, keep |-> None]

RECURSIVE Size(_)
Size(lns) ==
    IF lns = <<>> THEN 0
    ELSE 1 + Len(Head(lns).text) + Max(Head(lns).indent, 0) + Size(Tail(lns))

\* a call parse_body(input)
Frame(input, caller) ==
    [src |-> input, blocks |-> <<>>, input |-> input, caller |-> caller]

Top(stk) == stk[Len(stk)]

Callers(stk) == SubSeq(stk, 1, Len(stk) - 1)

Raised(stk, exception) == [pc |-> exception, stack |-> stk]

\* parse_body: lines 402-405, a transition of the innermost call matched
\* and returned block and the lines rest
Continue(stk, block, rest) ==
    IF Len(rest) >= Len(Top(stk).src) THEN Raised(stk, "unbounded")
    ELSE [pc |-> "parse",
          stack |-> Callers(stk)
                        \o <<[Top(stk) EXCEPT !.blocks = @ \o block, !.src = rest]>>]

\* a parse function of the innermost call of stk calls parse_body(r.nested)
Call(stk, r) ==
    IF Size(r.nested) >= Size(Top(stk).src) THEN Raised(stk, "unbounded")
    ELSE [pc |-> "parse",
          stack |-> stk \o <<Frame(r.nested, r.caller)>>]

\* parse_body: one iteration of the while loop up to the return of the
\* transition or its call of parse_body, for the result t of the for loop
Dispatched(stk, t) ==
    IF t = None THEN Raised(stk, "RSTParseError")
    ELSE IF t[1].call THEN Call(stk, t[1])
    ELSE Continue(stk, t[1].block, t[1].src)

\* parse_list: lines 226-231, the parse_body call for an item has returned;
\* the loop goes on with the item match m or ends
ItemParsed(stk, list, m) ==
    IF m # None
    THEN IF Len(NestedBlock(list.src, Some(m[1].offset), TRUE).src) >= Len(list.src)
         THEN Raised(stk, "unbounded")
         ELSE Call(stk, ListItem(m, list.src, list))
    ELSE Continue(stk, <<ListClosure(list, list.items)>>, list.src)

\* parse_list that tries match_definition for the next item of every list:
\* the variant C19 is tested against
ReturnedAnyTerm(stk, caller, body) ==
    IF caller.fn = "parse_list"
    THEN ItemParsed(stk,
                    [caller EXCEPT !.items = Append(@, [key |-> caller.key,
                                                        body |-> body])],
                    IF caller.src # <<>>
                    THEN ItemMatch("match_definition", caller.src) ELSE None)
    ELSE Continue(stk, <<Closure(caller, body)>>, caller.src)

\* the innermost parse_body call returns body to the parse function that
\* made it
Returned(stk, caller, body) ==
    IF caller.fn = "parse_list"
    THEN ItemParsed(stk,
                    [caller EXCEPT !.items = Append(@, [key |-> caller.key,
                                                        body |-> body])],
                    IF caller.src # <<>>
                    THEN ItemMatch(caller.item_match, caller.src) ELSE None)
    ELSE Continue(stk, <<Closure(caller, body)>>, caller.src)

Init ==
    /\ pc = "start"
    /\ source \in Sources
    /\ lines = <<>>
    /\ stack = <<>>
    /\ blocks = <<>>
    /\ args = NoArgs
    /\ out = <<>>
    /\ calls = <<>>
    /\ match = None
    /\ heap = <<>>
    /\ stores = <<>>
    /\ nested = None

\* format_rst: lines 426-430, for the result p of the loop over the lines
Preprocessed(p) ==
    /\ pc' = IF p.error # "" THEN p.error ELSE "parse"
    /\ lines' = p.lines
    /\ stack' = IF p.error # "" THEN <<>>
                ELSE <<Frame(p.lines, [fn |-> "format_rst", src |-> <<>>])>>

\* format_rst: lines 421-430
Preprocess ==
    /\ pc = "start"
    /\ Preprocessed(PreprocessLines(source))
    /\ UNCHANGED <<source, blocks, args, out, calls, match, heap, stores,
                 nested>>

Moved(n) ==
    /\ pc' = n.pc
    /\ stack' = n.stack

\* parse_body: one iteration of the while loop of the innermost call
Step ==
    /\ pc = "parse"
    /\ Top(stack).src # <<>>
    /\ Moved(Dispatched(stack, Transition(Top(stack).src, 1)))
    /\ UNCHANGED <<source, lines, blocks, args, out, calls, match, heap, stores,
                 nested>>

\* parse_body: the loop of a nested call ends and its closure body is
\* returned to the parse function that made the call
Return ==
    /\ pc = "parse"
    /\ Top(stack).src = <<>>
    /\ Len(stack) > 1
    /\ Moved(Returned(Callers(stack), Top(stack).caller, Top(stack).blocks))
    /\ UNCHANGED <<source, lines, blocks, args, out, calls, match, heap, stores,
                 nested>>

\* parse_body: the loop of the outermost call ends and its closure body is
\* returned to format_rst
Finish ==
    /\ pc = "parse"
    /\ Top(stack).src = <<>>
    /\ Len(stack) = 1
    /\ pc' = "parsed"
    /\ blocks' = Top(stack).blocks
    /\ stack' = <<>>
    /\ UNCHANGED <<source, lines, args, out, calls, match, heap, stores,
                 nested>>

\* format_rst: line 431, the one call of the closure
Format ==
    /\ pc = "parsed"
    /\ \E width \in Widths, indent \in Indents, keep \in Keeps :
          /\ args' = [width |-> width, indent |-> indent, keep |-> keep]
          /\ out' = Body(blocks, width, indent, keep)
    /\ pc' = "done"
    /\ UNCHANGED <<source, lines, stack, blocks, calls, match, heap, stores,
                 nested>>

Next == Preprocess \/ Step \/ Return \/ Finish \/ Format

Spec == Init /\ [][Next]_vars

(***************************************************************************)
(* The closure of the outermost parse_body called more than once.  A       *)
(* caller that holds the closure may call it again with any arguments;     *)
(* calls records the arguments and the result of every call so far.        *)
(***************************************************************************)
InitPure ==
    /\ pc = "start"
    /\ source \in ExampleSources
    /\ lines = <<>>
    /\ stack = <<>>
    /\ blocks = <<>>
    /\ args = NoArgs
    /\ out = <<>>
    /\ calls = <<>>
    /\ match = None
    /\ heap = <<>>
    /\ stores = <<>>
    /\ nested = None

\* a call body(width, indent, **kw) that returned result
Rendered(a, result) ==
    /\ args' = a
    /\ out' = result
    /\ calls' = Append(calls, [args |-> a, out |-> result])

\* a body that consumes the blocks it renders (blocks.pop()): the variant
\* C5 is tested against
RenderDraining ==
    /\ pc = "parsed"
    /\ Len(calls) < MaxCalls
    /\ \E width \in Widths, indent \in Indents, keep \in Keeps :
          Rendered([width |-> width, indent |-> indent, keep |-> keep],
                   Body(blocks, width, indent, keep))
    /\ blocks' = SubSeq(blocks, 1, Len(blocks) - 1)
    /\ UNCHANGED <<pc, source, lines, stack, match, heap, stores, nested>>

\* parse_body.body: lines 409-415, one call of the closure
Render ==
    /\ pc = "parsed"
    /\ Len(calls) < MaxCalls
    /\ \E width \in Widths, indent \in Indents, keep \in Keeps :
          Rendered([width |-> width, indent |-> indent, keep |-> keep],
                   Body(blocks, width, indent, keep))
    /\ UNCHANGED <<pc, source, lines, stack, blocks, match, heap, stores,
                 nested>>

NextPure == Preprocess \/ Step \/ Return \/ Finish \/ Render

SpecPure == InitPure /\ [][NextPure]_vars

(***************************************************************************)
(* The item matchers called on their own: match_bullet, match_option,      *)
(* match_field and match_definition on lines src whose first line is a     *)
(* marker, a gap of up to MaxGap spaces and a text, alone or followed by a *)
(* line.  match is the matcher called with what it returned: None or a     *)
(* ListItemMatch.                                                          *)
(***************************************************************************)
MaxGap == 3

Markers ==
    {<<"-">>, <<"|">>, <<"1", ".">>, <<"3", "4", ".">>, <<"(", "a", ")">>,
     <<"a", ")">>, <<"5", "6", ")">>, <<"1">>, <<"(", "a">>,
     <<"a", ".", "b", ".">>, <<"x">>, <<"-", "b">>,
     <<"-", "b", " ", "A", "R", "G">>,
     <<"-", "-", "l", "o", "n", "g", "-", "o", "p", "t", "i", "o", "n">>,
     <<"-", "-", "l", "o", "n", "g", "-", "o", "p", "t", "i", "o", "n", "=", "A", "R", "G">>,
     <<"-", "b", ",", " ", "-", "-", "l", "o", "n", "g", "-", "o", "p", "t", "i", "o", "n", " ", "A", "R", "G">>,
     <<"-", "b", " ", "-", "-", "l", "o", "n", "g", "-", "o", "p", "t", "i", "o", "n", " ", "A", "R", "G">>,
     <<"-", "B">>, <<"-", "-">>,
     <<":", "f", "i", "e", "l", "d", " ", "k", "e", "y", ":">>,
     <<":", "k", "e", "y", ":">>, <<":", "a", " ", ":">>, <<":", " ", "a", ":">>, <<":", ":">>,
     <<":", "a", ":", "b", ":">>, <<":", "a">>}

Rests ==
    {<<>>, <<"x">>, <<"d", "e", "s", "c", "r", "i", "p", "t", "i", "o", "n">>,
     <<"f", "i", "e", "l", "d", " ", "v", "a", "l", "u", "e">>}

ItemTexts ==
    {k \o Spaces(n) \o r : k \in Markers, n \in 0..MaxGap, r \in Rests}

Followers == {<<>>, <<Line(2, <<"d">>)>>, <<Line(0, <<"d">>)>>}

InitMatch ==
    /\ pc = "match"
    /\ source = <<>>
    /\ lines \in {<<Line(0, t)>> \o f : t \in ItemTexts, f \in Followers}
    /\ stack = <<>>
    /\ blocks = <<>>
    /\ args = NoArgs
    /\ out = <<>>
    /\ calls = <<>>
    /\ match = None
    /\ heap = <<>>
    /\ stores = <<>>
    /\ nested = None

\* a call item_match(src) of the matcher named f
ItemMatched(f) ==
    /\ pc = "match"
    /\ match' = Some([item_match |-> f, m |-> ItemMatch(f, lines)])
    /\ pc' = "matched"
    /\ UNCHANGED <<source, lines, stack, blocks, args, out, calls, heap, stores,
                 nested>>

MatchBullet == ItemMatched("match_bullet")

MatchOption == ItemMatched("match_option")

MatchField == ItemMatched("match_field")

MatchDefinition == ItemMatched("match_definition")

NextMatch == MatchBullet \/ MatchOption \/ MatchField \/ MatchDefinition

SpecMatch == InitMatch /\ [][NextMatch]_vars

(***************************************************************************)
(* coal.config.ConfigStore.  heap holds the dicts the stores are made of,  *)
(* a dict being a function and its address its index in heap; a store is   *)
(* the addresses of its _data, a dict of addresses of the dicts of its     *)
(* sections, and of its _source.  stores holds the ConfigStore objects of  *)
(* the names of StoreNames, args the last call made with the number of     *)
(* calls made so far, of which there are up to MaxOps, and calls the copy  *)
(* and update calls among them.                                            *)
(***************************************************************************)
MaxOps == 4

StoreNames == {"a", "b"}

Sections == {"s", "t"}

Keys == {"k"}

\* the (value, source) arguments of set
Settings ==
    {[value |-> "v", source |-> None], [value |-> "w", source |-> Some(<<"p">>)]}

\* {}
EmptyDict == [x \in {} |-> x]

\* d[k] = v
DictSet(d, k, v) == [x \in DOMAIN d \cup {k} |-> IF x = k THEN v ELSE d[x]]

\* del d[k]
DictDel(d, k) == [x \in DOMAIN d \ {k} |-> d[x]]

\* d.update(e)
DictUpdate(d, e) ==
    [x \in DOMAIN d \cup DOMAIN e |-> IF x \in DOMAIN e THEN e[x] ELSE d[x]]

\* d.get(k, None)
DictGet(d, k) == IF k \in DOMAIN d THEN Some(d[k]) ELSE None

\* path(p).abspath() for a relative path p: the working directory and p
Abspath(p) == <<"cwd">> \o p

\* a ConfigStore whose _data and _source are the dicts at these addresses
Store(data, source_) == [data |-> data, source |-> source_]

\* __init__: self._data[section] = src._data[section] for the sections of
\* todo, the dict of a section shared with src: the variant C16 is tested
\* against
RECURSIVE ShareSections(_, _, _, _)
ShareSections(h, self_data, src_data, todo) ==
    IF todo = {} THEN h
    ELSE Let(CHOOSE section \in todo : TRUE, LAMBDA section :
             ShareSections([h EXCEPT ![self_data] =
                               DictSet(@, section, h[src_data][section])],
                           self_data, src_data, todo \ {section}))

\* __init__: lines 34-35, self._data[section] = src._data[section].copy()
\* for the sections of todo
RECURSIVE CopySections(_, _, _, _)
CopySections(h, self_data, src_data, todo) ==
    IF todo = {} THEN h
    ELSE Let(CHOOSE section \in todo : TRUE, LAMBDA section :
             CopySections([Append(h, h[h[src_data][section]])
                              EXCEPT ![self_data] = DictSet(@, section, Len(h) + 1)],
                          self_data, src_data, todo \ {section}))

\* ConfigStore(): the heap h with the two dicts of the new store
NewStore(h) == h \o <<EmptyDict, EmptyDict>>

\* ConfigStore(src), copy(): the heap h with the dicts of the new store,
\* which are at Len(h) + 1 (_data) and Len(h) + 2 (_source)
CopiedStore(h, src) ==
    CopySections(h \o <<EmptyDict, h[src.source]>>, Len(h) + 1, src.data,
                 DOMAIN h[src.data])

\* set: lines 56-62, on the store self
SetStore(h, self, section, key, value, source_) ==
    Let(IF section \notin DOMAIN h[self.data]
        THEN [Append(h, EmptyDict) EXCEPT ![self.data] = DictSet(@, section, Len(h) + 1)]
        ELSE h,
        LAMBDA h1 :
            [h1 EXCEPT ![h1[self.data][section]] = DictSet(@, key, value),
                       ![self.source] =
                           DictSet(@, <<section, key>>,
                                   IF source_ # None /\ source_[1] # <<>>
                                   THEN Some(Abspath(source_[1])) ELSE None)])

\* unset: lines 64-70
UnsetStore(h, self, section, key) ==
    Let(IF section \in DOMAIN h[self.data] /\ key \in DOMAIN h[h[self.data][section]]
        THEN [h EXCEPT ![h[self.data][section]] = DictDel(@, key)]
        ELSE h,
        LAMBDA h1 :
            IF <<section, key>> \in DOMAIN h1[self.source]
            THEN [h1 EXCEPT ![self.source] = DictDel(@, <<section, key>>)]
            ELSE h1)

\* update: lines 74-77, the loop over the sections of todo
RECURSIVE UpdateSections(_, _, _, _)
UpdateSections(h, self, src, todo) ==
    IF todo = {} THEN h
    ELSE Let(CHOOSE section \in todo : TRUE, LAMBDA section :
         Let(IF section \notin DOMAIN h[self.data]
             THEN [Append(h, EmptyDict)
                      EXCEPT ![self.data] = DictSet(@, section, Len(h) + 1)]
             ELSE h,
             LAMBDA h1 :
                 UpdateSections([h1 EXCEPT ![h1[self.data][section]] =
                                    DictUpdate(@, h1[h1[src.data][section]])],
                                self, src, todo \ {section})))

\* update: lines 74-78
UpdateStore(h, self, src) ==
    Let(UpdateSections(h, self, src, DOMAIN h[src.data]), LAMBDA h1 :
        [h1 EXCEPT ![self.source] = DictUpdate(@, h1[src.source])])

\* get(section, key) on the store self of the heap h
Get(h, self, section, key) ==
    IF section \in DOMAIN h[self.data]
    THEN DictGet(h[h[self.data][section]], key) ELSE None

\* source(section, key); the source of a field may itself be None
SourceOf(h, self, section, key) ==
    IF <<section, key>> \in DOMAIN h[self.source]
    THEN h[self.source][<<section, key>>] ELSE None

InitConfig ==
    /\ pc = "config"
    /\ source = <<>>
    /\ lines = <<>>
    /\ stack = <<>>
    /\ blocks = <<>>
    /\ args = [op |-> "ConfigStore", store |-> "a", of |-> "a", count |-> 0]
    /\ out = <<>>
    /\ calls = {}
    /\ match = None
    /\ heap = NewStore(NewStore(<<>>))
    /\ stores = [n \in StoreNames |-> IF n = "a" THEN Store(1, 2) ELSE Store(3, 4)]
    /\ nested = None

\* a call op on the store named n, with the store named m as its argument
\* if it has one, has left the heap h
Called_(op, n, m, h) ==
    /\ args.count < MaxOps
    /\ heap' = h
    /\ args' = [op |-> op, store |-> n, of |-> m, count |-> args.count + 1]
    /\ UNCHANGED <<pc, source, lines, stack, blocks, out, match, nested>>

\* stores[n].set(section, key, value, source)
Set ==
    \E n \in StoreNames, section \in Sections, key \in Keys, v \in Settings :
        /\ pc = "config"
        /\ Called_("set", n, n, SetStore(heap, stores[n], section, key, v.value, v.source))
        /\ UNCHANGED <<stores, calls>>

\* stores[n].unset(section, key)
Unset ==
    \E n \in StoreNames, section \in Sections, key \in Keys :
        /\ pc = "config"
        /\ Called_("unset", n, n, UnsetStore(heap, stores[n], section, key))
        /\ UNCHANGED <<stores, calls>>

\* stores[n] = stores[m].copy()
Copy ==
    \E n, m \in StoreNames :
        /\ pc = "config"
        /\ n # m
        /\ Called_("copy", n, m, CopiedStore(heap, stores[m]))
        /\ stores' = [stores EXCEPT ![n] = Store(Len(heap) + 1, Len(heap) + 2)]
        /\ calls' = calls \cup {[op |-> "copy", of |-> m, to |-> n]}

\* stores[n].update(stores[m])
Update ==
    \E n, m \in StoreNames :
        /\ pc = "config"
        /\ Called_("update", n, m, UpdateStore(heap, stores[n], stores[m]))
        /\ calls' = calls \cup {[op |-> "update", of |-> m, to |-> n]}
        /\ UNCHANGED stores

NextConfig == Set \/ Unset \/ Copy \/ Update

SpecConfig == InitConfig /\ [][NextConfig]_vars

(***************************************************************************)
(* format_rst on lists.  A source of this family is up to MaxKeyed items,  *)
(* each an item of a bullet list (of one paragraph, of two, holding a      *)
(* container, or empty), of an option list or a field list (with a key the *)
(* key column has room for, or a longer one, or with a literal block as    *)
(* its body) or of a definition list.  The steps are those of format_rst.  *)
(***************************************************************************)
MaxKeyed == 2

KeyedItems ==
    {<<<<"-", " ", "a">>>>,
     <<<<"-", " ", "b">>, <<>>, <<" ", " ", "c">>>>,
     <<<<"-", "b", " ", " ", "x">>>>,
     <<<<"-", "-", "l", "o", "n", "g", "-", "o", "p", "t", "i", "o", "n", "=", "A", "R", "G", " ", " ", "y">>>>,
     <<<<":", "f", ":", " ", "x">>>>,
     <<<<":", "a", " ", "l", "o", "n", "g", " ", "f", "i", "e", "l", "d", ":", " ", "y">>>>,
     <<<<"t">>, <<" ", " ", "d">>>>,
     <<<<"-", " ", ".", ".", " ", "c", "o", "n", "t", "a", "i", "n", "e", "r", ":", ":", " ", "w">>, <<>>, <<" ", " ", "e">>>>,
     <<<<"-", "b", " ", " ", ":", ":">>, <<>>, <<" ", " ", " ", " ", " ", " ", "l">>>>,
     <<<<"-">>>>}

RECURSIVE Flatten(_)
Flatten(ss) == IF ss = <<>> THEN <<>> ELSE Head(ss) \o Flatten(Tail(ss))

KeyedSources ==
    {Unlines(Flatten(items)) : items \in SeqsUpTo(KeyedItems, MaxKeyed)}

InitList ==
    /\ pc = "start"
    /\ source \in KeyedSources
    /\ lines = <<>>
    /\ stack = <<>>
    /\ blocks = <<>>
    /\ args = NoArgs
    /\ out = <<>>
    /\ calls = <<>>
    /\ match = None
    /\ heap = <<>>
    /\ stores = <<>>
    /\ nested = None

SpecList == InitList /\ [][Next]_vars

(***************************************************************************)
(* format_rst on admonitions.  A source of this family is a directive      *)
(* line of one of the keywords of _admonitions, in lower case, in upper    *)
(* case or capitalised, with or without text after the "::", and up to     *)
(* MaxFollow lines after it.  The steps are those of format_rst.           *)
(***************************************************************************)
MaxFollow == 2

Keywords == {admonitions[i].key : i \in DOMAIN admonitions}

Cased(k) ==
    {k, [i \in DOMAIN k |-> ToUpper(k[i])], <<ToUpper(k[1])>> \o Tail(k)}

DirectiveTails == {<<>>, <<" ", "x">>, <<"x">>}

FollowLines == {<<>>, <<" ", " ", " ", "y">>, <<"b">>}

AdmonitionSources ==
    UNION {{Unlines(<<<<".", ".", " ">> \o c \o <<":", ":">> \o t>> \o f) :
                c \in Cased(k), t \in DirectiveTails,
                f \in SeqsUpTo(FollowLines, MaxFollow)} : k \in Keywords}

InitAdmonition ==
    /\ pc = "start"
    /\ source \in AdmonitionSources
    /\ lines = <<>>
    /\ stack = <<>>
    /\ blocks = <<>>
    /\ args = NoArgs
    /\ out = <<>>
    /\ calls = <<>>
    /\ match = None
    /\ heap = <<>>
    /\ stores = <<>>
    /\ nested = None

SpecAdmonition == InitAdmonition /\ [][Next]_vars

(***************************************************************************)
(* format_rst on paragraphs with inline markup.  A source of this family   *)
(* is up to MaxInline lines, without a blank line, that hold double        *)
(* backquotes and interpreted text: of the role code, before and after the *)
(* text, with a text of word characters, with a space, with a hyphen, or   *)
(* split over two lines, of another role, and in the item of a bullet      *)
(* list.  The steps are those of format_rst.                               *)
(***************************************************************************)
MaxInline == 2

InlineLines ==
    {<<":", "c", "o", "d", "e", ":", Backtick, "a", Backtick>>,
     <<Backtick, "a", Backtick, ":", "c", "o", "d", "e", ":">>,
     <<":", "c", "o", "d", "e", ":", Backtick, "a", " ", "b", Backtick>>,
     <<Backtick, Backtick, "a", Backtick, Backtick>>,
     <<":", "c", "o", "d", "e", ":", Backtick, "a", "-", "b", Backtick>>,
     <<"x">>,
     <<":", "c", "o", "d", "e", ":", Backtick, "a">>,
     <<"b", Backtick>>,
     <<Backtick, "a", Backtick, ":", "c", "o", "d", "e", ":", Backtick, "b", Backtick>>,
     <<":", "e", "m", "p", "h", ":", Backtick, "a", Backtick>>,
     <<"-", " ", ":", "c", "o", "d", "e", ":", Backtick, "a", Backtick>>}

InlineSources == {Unlines(ls) : ls \in SeqsUpTo(InlineLines, MaxInline)}

InitInline ==
    /\ pc = "start"
    /\ source \in InlineSources
    /\ lines = <<>>
    /\ stack = <<>>
    /\ blocks = <<>>
    /\ args = NoArgs
    /\ out = <<>>
    /\ calls = <<>>
    /\ match = None
    /\ heap = <<>>
    /\ stores = <<>>
    /\ nested = None

SpecInline == InitInline /\ [][Next]_vars

(***************************************************************************)
(* nested_block called on its own, on lines src of the kinds parse_body    *)
(* holds: non-blank lines of indent 0 or more and blank lines of indent 0  *)
(* or less.  The callers that give shift_first (parse_admonition and       *)
(* parse_list) do so on lines whose first line is non-blank, has indent 0  *)
(* and is at least shift_first long.  nested is None or the arguments of   *)
(* the call with the tuple (block, src) it returned.                       *)
(***************************************************************************)
MaxNested == 5

NestedLines ==
    {Line(0, <<>>), Line(-2, <<>>), Line(0, <<"a">>), Line(2, <<"b">>),
     Line(4, <<"c">>), Line(0, <<"-", " ", "d">>)}

Shifts == 0..3

InitNested ==
    /\ pc = "nested"
    /\ source = <<>>
    /\ lines \in UNION {[1..k -> NestedLines] : k \in 0..MaxNested}
    /\ stack = <<>>
    /\ blocks = <<>>
    /\ args = NoArgs
    /\ out = <<>>
    /\ calls = <<>>
    /\ match = None
    /\ heap = <<>>
    /\ stores = <<>>
    /\ nested = None

\* block, src = nested_block(lines, shift_first, strip_indent) has returned nb
NestedReturned(shift_first, strip_indent, nb) ==
    /\ pc = "nested"
    /\ nested' = Some([shift_first |-> shift_first, strip_indent |-> strip_indent,
                       block |-> nb.block, src |-> nb.src])
    /\ pc' = "returned"
    /\ UNCHANGED <<source, lines, stack, blocks, args, out, calls, match, heap,
                   stores>>

\* nested_block(src, strip_indent=...)
Nested ==
    \E strip_indent \in BOOLEAN :
        NestedReturned(None, strip_indent, NestedBlock(lines, None, strip_indent))

\* nested_block(src, shift_first=n, strip_indent=...)
NestedShifted ==
    \E n \in Shifts, strip_indent \in BOOLEAN :
        /\ lines # <<>>
        /\ lines[1].indent = 0
        /\ 0 < Len(lines[1].text)
        /\ n <= Len(lines[1].text)
        /\ NestedReturned(Some(n), strip_indent,
                          NestedBlock(lines, Some(n), strip_indent))

NextNested == Nested \/ NestedShifted

SpecNested == InitNested /\ [][NextNested]_vars

(***************************************************************************)
(* Properties.                                                             *)
(***************************************************************************)
\* format_rst has returned or raised
Ended == pc \in {"done", "ValueError", "RSTParseError", "unbounded"}

\* C1: parse_body never raises RSTParseError: wherever a parse_body call, at
\* any depth, has lines left, parse_blank matches when the first line has an
\* empty text and parse_paragraph matches when it has not.
C1_NeverParseError ==
    /\ pc # "RSTParseError"
    /\ (pc = "parse" /\ Top(stack).src # <<>>) =>
          IF Top(stack).src[1].text = <<>>
          THEN ParseBlank(Top(stack).src).matched
          ELSE ParseParagraph(Top(stack).src).matched

\* a nested parse_body call has parsed a block and has lines left that only
\* the paragraph catch-all matches
C1_Witness ==
    /\ pc = "parse"
    /\ Len(stack) > 1
    /\ Top(stack).blocks # <<>>
    /\ Top(stack).src # <<>>
    /\ \A i \in 1..8 : ~Apply(transitions[i], Top(stack).src).matched
    /\ ParseParagraph(Top(stack).src).matched

\* the length of a line as written: its indent and its text
LineWidth(l) == l.indent + Len(l.text)

\* a is strictly less input than b: fewer lines, or as many lines with a
\* strictly shorter first line
Less(a, b) ==
    \/ Len(a) < Len(b)
    \/ a # <<>> /\ Len(a) = Len(b) /\ LineWidth(a[1]) < LineWidth(b[1])

\* every active parse_body call but the outermost was made on less input
\* than the lines its calling parse_body had left
CallsOnLess ==
    \A k \in 2..Len(stack) : Less(stack[k].input, stack[k - 1].src)

\* the lines the waiting parse functions of stk still have to hand back
RECURSIVE Pending(_)
Pending(stk) ==
    IF stk = <<>> THEN 0
    ELSE 2 * Size(Top(stk).caller.src) + 1 + Pending(Callers(stk))

\* a bound on the number of steps format_rst has left
Variant ==
    CASE pc = "start" -> 2 * Len(source) + 4
      [] pc = "parse" -> 2 * Size(Top(stack).src) + Pending(stack) + 2
      [] pc = "parsed" -> 1
      [] OTHER -> 0

\* a parse_body call that is active before and after a step has its src
\* unchanged or shortened by the step
LoopShortens ==
    \A k \in DOMAIN stack :
        (/\ k <= Len(stack')
         /\ stack'[k].input = stack[k].input
         /\ stack'[k].caller = stack[k].caller
         /\ stack'[k].src # stack[k].src)
            => Len(stack'[k].src) < Len(stack[k].src)

\* format_rst has a step to take: the guard of Preprocess, of one of Step,
\* Return and Finish, or of Format holds
Running ==
    \/ pc = "start"
    \/ pc = "parse" /\ stack # <<>>
    \/ pc = "parsed"

\* C2: parsing terminates: no loop iteration leaves src as long as it was,
\* every recursive parse_body call is made on strictly less input, and
\* format_rst, until it has returned or raised, has a step to take that
\* lowers a natural-number bound on the steps left.
C2_Terminates ==
    /\ [](pc # "unbounded" /\ CallsOnLess /\ (Ended \/ Running))
    /\ [][LoopShortens /\ Variant' < Variant]_vars

\* three parse_body calls are active, the innermost made by a second list
\* item after the first has been parsed
C2_Witness ==
    /\ pc = "parse"
    /\ Len(stack) >= 3
    /\ Top(stack).caller.fn = "parse_list"
    /\ Top(stack).caller.items # <<>>
    /\ Top(stack).src # <<>>

\* blks without the containers that keep names no more, at every depth
RECURSIVE Kept(_, _)
KeptBlock(b, keep) ==
    CASE b.kind = "container" ->
            IF keep # None /\ b.name \notin keep[1] THEN <<>>
            ELSE <<[b EXCEPT !.body = Kept(b.body, keep)]>>
      [] b.kind = "nested" -> <<[b EXCEPT !.content = Kept(b.content, keep)]>>
      [] b.kind = "admonition" -> <<[b EXCEPT !.body = Kept(b.body, keep)]>>
      [] b.kind = "list" ->
            <<[b EXCEPT !.items =
                  [i \in DOMAIN b.items |->
                      [b.items[i] EXCEPT !.body = Kept(b.items[i].body, keep)]]]>>
      [] b.kind = "paragraph" -> <<b>>

Kept(blks, keep) ==
    IF blks = <<>> THEN <<>>
    ELSE KeptBlock(Head(blks), keep) \o Kept(Tail(blks), keep)

HiddenText == <<"H", "i", "d", "d", "e", "n", " ", "t", "e", "x", "t">>

\* the source of the example: the line "Hidden text" is not indented
ContainerExample == Unlines(<<ContainerLine(Verbose), <<>>, HiddenText>>)

\* the source of the example with "Hidden text" indented by two spaces
ContainerIndented ==
    Unlines(<<ContainerLine(Verbose), <<>>, <<" ", " ">> \o HiddenText>>)

\* format_rst(text, keep=...) has returned: width and indent are the defaults
Formatted(text) ==
    /\ pc = "done"
    /\ source = text
    /\ args.width = 80
    /\ args.indent = <<>>

AllBlank(text) == \A i \in DOMAIN text : text[i] \in {"\n", " "}

\* C6: preprocessing raises nothing, and an all-blank source gives the
\* empty document, which renders to the empty string.
C6_NoErrorCases ==
    /\ pc # "ValueError"
    /\ (pc = "done" /\ AllBlank(source)) => (blocks = <<>> /\ out = <<>>)

\* the items of the list b are one paragraph each, without a literal block
SingleParagraphs(b) ==
    \A i \in DOMAIN b.items :
        /\ Len(b.items[i].body) = 1
        /\ b.items[i].body[1].kind = "paragraph"
        /\ b.items[i].body[1].literal = None

\* C7: a document that is one bullet or enumerated list whose items are one
\* paragraph each has vspace false and renders with a line break and no
\* blank line between the items, and "- one", "- two" at width 80 renders
\* as "- one\n- two".
C7_NoBlankBetweenItems ==
    (/\ pc = "done"
     /\ Len(blocks) = 1
     /\ match_bullet(lines) # None
     /\ blocks[1].kind = "list"
     /\ SingleParagraphs(blocks[1]))
        => /\ ~blocks[1].vspace
           /\ ~Contains(out, <<"\n", "\n">>)
           /\ Len(SplitLines(out)) >= Len(blocks[1].items)
           /\ Formatted(Unlines(<<<<"-", " ", "o", "n", "e">>,
                                  <<"-", " ", "t", "w", "o">>>>))
                 => out = <<"-", " ", "o", "n", "e", "\n", "-", " ", "t", "w", "o">>

\* two bullet items with a blank line between them in the source
C7_Witness ==
    /\ Formatted(Unlines(<<<<"-", " ", "a">>, <<>>, <<"-", " ", "a">>>>))
    /\ Len(blocks) = 1
    /\ Len(blocks[1].items) = 2
    /\ SingleParagraphs(blocks[1])
    /\ out = <<"-", " ", "a", "\n", "-", " ", "a">>

LiteralInked ==
    {i \in 3..Len(lines) :
        /\ lines[i].text # <<>>
        /\ \A j \in 3..i : lines[j].text = <<>> \/ lines[j].indent >= 1}

LiteralIndent == Least({lines[i].indent : i \in LiteralInked})

\* the k-th literal line as C8 states it, for a paragraph rendered at indent
LiteralExpected(indent, k) ==
    IF lines[Least(LiteralInked) + k - 1].text = <<>> THEN <<>>
    ELSE indent \o <<" ", " ">>
             \o Spaces(lines[Least(LiteralInked) + k - 1].indent - LiteralIndent)
             \o lines[Least(LiteralInked) + k - 1].text

\* C8: after the paragraph "a::" and a blank line, the indented block is
\* rendered line for line (not wrapped), its least-indented line after the
\* indent of the paragraph and two spaces, however far the source indented
\* it; the other lines keep their indent relative to that line, and blank
\* lines are rendered empty.
C8_LiteralBlock ==
    (pc = "done" /\ source \in LiteralSources /\ LiteralInked # {})
        => /\ blocks[1].kind = "paragraph"
           /\ Paragraph(blocks[1], args.width, args.indent)
                 = args.indent \o <<"a", ":", "\n", "\n">>
                       \o Join(<<"\n">>,
                               [k \in 1..(Greatest(LiteralInked) - Least(LiteralInked) + 1)
                                   |-> LiteralExpected(args.indent, k)])
           /\ StartsWith(out, Paragraph(blocks[1], args.width, args.indent))

\* a literal block whose first line is indented by four spaces and whose
\* last line, after a blank line, by two, rendered at the indent of two
\* spaces
C8_Witness ==
    /\ pc = "done"
    /\ source = Unlines(<<<<"a", ":", ":">>, <<>>, <<" ", " ", " ", " ", "y">>,
                          <<>>, <<" ", " ", "x">>>>)
    /\ args.indent = <<" ", " ">>
    /\ out = <<" ", " ", "a", ":", "\n", "\n",
               " ", " ", " ", " ", " ", " ", "y", "\n", "\n",
               " ", " ", " ", " ", "x">>

\* the first transition that matches the lines of the source is
\* parse_definition
DefinitionFirst ==
    /\ lines # <<>>
    /\ match_definition(lines) # None
    /\ \A i \in 1..7 : ~Apply(transitions[i], lines).matched

\* C9: a document that is one definition list has the key column 2, and
\* renders every term on a line of its own at the indent of the list, its
\* body on the lines after it at that indent and two spaces, the items a
\* blank line apart.
C9_DefinitionList ==
    (pc = "done" /\ Len(blocks) = 1 /\ DefinitionFirst)
        => /\ blocks[1].kind = "list"
           /\ blocks[1].keywidth = 2
           /\ out = Join(<<"\n", "\n">>,
                         [i \in DOMAIN blocks[1].items |->
                             args.indent \o blocks[1].items[i].key \o <<"\n">>
                                 \o Body(blocks[1].items[i].body, args.width,
                                         args.indent \o <<" ", " ">>, args.keep)])
           /\ \A l \in Range(SplitLines(out)) :
                 \/ l = <<>>
                 \/ \E i \in DOMAIN blocks[1].items :
                       l = args.indent \o blocks[1].items[i].key
                 \/ StartsWith(l, args.indent \o <<" ", " ">>)

\* the term "term" with a nested bullet list of two items
C9_Witness ==
    /\ Formatted(Unlines(<<<<"t", "e", "r", "m">>, <<" ", " ", "-", " ", "a">>,
                           <<" ", " ", "-", " ", "b">>>>))
    /\ blocks[1].items[1].body[1].kind = "list"
    /\ out = <<"t", "e", "r", "m", "\n", " ", " ", "-", " ", "a", "\n",
               " ", " ", "-", " ", "b">>

\* C10: the output is the outputs of the blocks that are not empty, joined
\* by one blank line.
C10_JoinsNonEmpty ==
    pc = "done" =>
        out = Join(<<"\n", "\n">>,
                   SelectSeq(RenderBlocks(blocks, args.width, args.indent, args.keep),
                             LAMBDA s : s # <<>>))

\* a bare "::" paragraph without a literal block, followed by a paragraph
C10_Witness ==
    /\ Formatted(Unlines(<<<<":", ":">>, <<>>, <<"a">>>>))
    /\ Len(blocks) = 2
    /\ Paragraph(blocks[1], args.width, args.indent) = <<>>
    /\ out = <<"\n", "\n", "a">>

\* the top-level block b is a container that keep suppresses
Suppressed(b, keep) ==
    b.kind = "container" /\ keep # None /\ b.name \notin keep[1]

\* the outputs of the top-level blocks that are not suppressed containers
Shown(blks, width, indent, keep) ==
    [i \in DOMAIN SelectSeq(blks, LAMBDA b : ~Suppressed(b, keep)) |->
        RenderBlock(SelectSeq(blks, LAMBDA b : ~Suppressed(b, keep))[i],
                    width, indent, keep)[1]]

\* C11: a suppressed container contributes nothing: the output is the
\* outputs of the other top-level blocks joined by one blank line, the
\* blocks next to a suppressed container being one blank line apart, and it
\* is the empty string when every top-level block is a suppressed container.
C11_SuppressedAbsent ==
    pc = "done" =>
        /\ out = Join(<<"\n", "\n">>,
                      Shown(blocks, args.width, args.indent, args.keep))
        /\ \A i \in DOMAIN blocks :
              (/\ 1 < i /\ i < Len(blocks)
               /\ Suppressed(blocks[i], args.keep)
               /\ ~Suppressed(blocks[i - 1], args.keep)
               /\ ~Suppressed(blocks[i + 1], args.keep))
                  => Contains(out,
                              RenderBlock(blocks[i - 1], args.width, args.indent,
                                          args.keep)[1]
                                  \o <<"\n", "\n">>
                                  \o RenderBlock(blocks[i + 1], args.width,
                                                 args.indent, args.keep)[1])
        /\ (\A i \in DOMAIN blocks : Suppressed(blocks[i], args.keep))
              => out = <<>>

\* a container with a body between two paragraphs, suppressed by keep
C11_Witness ==
    /\ pc = "done"
    /\ args.keep = Some({Verbose})
    /\ args.indent = <<>>
    /\ Len(blocks) = 3
    /\ blocks[2].kind = "container"
    /\ blocks[2].name = Other
    /\ blocks[2].body # <<>>
    /\ out = <<"p", "\n", "\n", "a">>

\* the pairs turned back into text: indent spaces followed by the text
\* (" " * n is the empty string for n < 0)
Reformat(lns) ==
    Unlines([i \in DOMAIN lns |-> Spaces(lns[i].indent) \o lns[i].text])

\* the non-blank lines of text have the same leading indentation
Uniform(text) ==
    \A l, m \in {k \in Range(SourceLines(text)) : k.text # <<>>} :
        l.indent = m.indent

\* C12: for a source whose lines have uniform or no leading indentation,
\* blank lines included, the preprocessed pairs turned back into text and
\* preprocessed again are the same pairs.
C12_PreprocessIdempotent ==
    (pc \notin {"start", "ValueError"} /\ Uniform(source))
        => /\ PreprocessLines(Reformat(lines)).error = ""
           /\ PreprocessLines(Reformat(lines)).lines = lines

\* a source with a uniform indentation of two spaces and a blank line: the
\* blank line has the indent -2, and 0 when preprocessed again
C12_Witness ==
    /\ pc = "parse"
    /\ source = Unlines(<<<<" ", " ", "a">>, <<>>>>)
    /\ lines = <<Line(0, <<"a">>), Line(-2, <<>>)>>
    /\ PreprocessLines(Reformat(lines)).lines = <<Line(0, <<"a">>), Line(0, <<>>)>>

\* item_match(src) has returned for the matcher named f
Called(f) == match # None /\ match[1].item_match = f

\* the text up to its first space
FirstWord(t) ==
    Take(t, Least({i \in 0..Len(t) : i = Len(t) \/ t[i + 1] = " "}))

\* the position in t after the spaces that follow position n
AfterSpaces(t, n) ==
    Least({i \in n..Len(t) : i = Len(t) \/ t[i + 1] # " "})

\* w is one or more of the characters 0-9, A-Z, a-z
Alnums(w) == w # <<>> /\ \A i \in DOMAIN w : w[i] \in Alnum

\* k is "-", "|", alnum+ ".", "(" alnum+ ")" or alnum+ ")"
BulletMarker(k) ==
    \/ k \in {<<"-">>, <<"|">>}
    \/ k # <<>> /\ k[Len(k)] = "." /\ Alnums(Take(k, Len(k) - 1))
    \/ k # <<>> /\ k[Len(k)] = ")" /\ Alnums(Take(k, Len(k) - 1))
    \/ k # <<>> /\ k[Len(k)] = ")" /\ k[1] = "(" /\ Alnums(SubSeq(k, 2, Len(k) - 1))

\* match_bullet on a line whose text is t
BulletExpected(t) ==
    IF BulletMarker(FirstWord(t))
    THEN ListItemMatch(FirstWord(t), AfterSpaces(t, Len(FirstWord(t))))
    ELSE None

\* C13, as stated: match_bullet returns the marker as key and the position
\* after the spaces that follow it as offset, declines a line that does not
\* start with a marker followed by a space or the end of the line, and
\* returns ("1.", 3) for "1. x" and ("(a)", 5) for "(a) x".
C13_AsStated ==
    Called("match_bullet") =>
        /\ match[1].m = BulletExpected(lines[1].text)
        /\ lines[1].text = <<"1", ".", " ", "x">>
              => match[1].m = ListItemMatch(<<"1", ".">>, 3)
        /\ lines[1].text = <<"(", "a", ")", " ", "x">>
              => match[1].m = ListItemMatch(<<"(", "a", ")">>, 5)

\* C13, amended: the same, with ("(a)", 4) for "(a) x".
C13_BulletMatch ==
    Called("match_bullet") =>
        /\ match[1].m = BulletExpected(lines[1].text)
        /\ lines[1].text = <<"1", ".", " ", "x">>
              => match[1].m = ListItemMatch(<<"1", ".">>, 3)
        /\ lines[1].text = <<"(", "a", ")", " ", "x">>
              => match[1].m = ListItemMatch(<<"(", "a", ")">>, 4)

\* match_bullet was called on "56)" followed by three spaces and a text
C13_Witness ==
    /\ Called("match_bullet")
    /\ lines[1].text = <<"5", "6", ")", " ", " ", " ", "x">>
    /\ match[1].m = ListItemMatch(<<"5", "6", ")">>, 6)

\* the words of s: what its spaces and commas separate
RECURSIVE WordsOf(_)
WordsOf(s) ==
    IF s = <<>> THEN <<>>
    ELSE IF s[1] \in {" ", ","} THEN WordsOf(Tail(s))
    ELSE Let(Least({i \in 1..Len(s) : i = Len(s) \/ s[i + 1] \in {" ", ","}}),
             LAMBDA n : <<Take(s, n)>> \o WordsOf(Drop(s, n)))

\* w is an argument: a letter, then letters, digits, "_" or "-"
ArgWord(w) ==
    /\ w # <<>>
    /\ w[1] \in Letters
    /\ \A i \in DOMAIN w : w[i] \in WordChars \cup {"-"}

\* w is a flag: "-" or "--" and lower-case letters or hyphens
PureFlag(w) ==
    /\ Len(w) >= 2
    /\ w[1] = "-"
    /\ \A i \in DOMAIN w : w[i] \in Lowers \cup {"-"}

\* w is a flag or a flag, "=" and an argument
FlagWord(w) ==
    \/ PureFlag(w)
    \/ \E i \in DOMAIN w :
          w[i] = "=" /\ PureFlag(Take(w, i - 1)) /\ ArgWord(Drop(w, i))

\* key is flags with their arguments, then come offset - Len(key) spaces of t
OptionKeyed(t, key, offset) ==
    /\ key = Take(t, Len(key))
    /\ key # <<>>
    /\ key[Len(key)] # " "
    /\ FlagWord(WordsOf(key)[1])
    /\ \A i \in DOMAIN WordsOf(key) :
          \/ FlagWord(WordsOf(key)[i])
          \/ i > 1 /\ ArgWord(WordsOf(key)[i]) /\ PureFlag(WordsOf(key)[i - 1])
    /\ offset = AfterSpaces(t, Len(key))
    /\ offset = Len(t) \/ offset >= Len(key) + 2

\* C14: match_option returns as key the flags with their arguments,
\* without the description and without trailing spaces, and as offset the
\* position after the two or more spaces before the description, or the
\* end of the line when there is none; a line that does not start with a
\* flag is declined; "-b ARG  description" gives ("-b ARG", 8).
C14_OptionMatch ==
    Called("match_option") =>
        /\ match[1].m # None
              => OptionKeyed(lines[1].text, match[1].m[1].key, match[1].m[1].offset)
        /\ ~PureFlag(Take(lines[1].text, 2)) => match[1].m = None
        /\ lines[1].text = <<"-", "b", " ", "A", "R", "G", " ", " ", "d", "e", "s", "c", "r", "i", "p", "t", "i", "o", "n">>
              => match[1].m = ListItemMatch(<<"-", "b", " ", "A", "R", "G">>, 8)
        /\ lines[1].text = <<"-", "-", "l", "o", "n", "g", "-", "o", "p", "t", "i", "o", "n", "=", "A", "R", "G">>
              => match[1].m = ListItemMatch(<<"-", "-", "l", "o", "n", "g", "-", "o", "p", "t", "i", "o", "n", "=", "A", "R", "G">>, 17)

\* match_option was called on two flags, the second with an argument, two
\* spaces and a description
C14_Witness ==
    /\ Called("match_option")
    /\ lines[1].text = <<"-", "b", ",", " ", "-", "-", "l", "o", "n", "g", "-", "o", "p", "t", "i", "o", "n", " ", "A", "R", "G">>
                           \o <<" ", " ", "d", "e", "s", "c", "r", "i", "p", "t", "i", "o", "n">>
    /\ match[1].m = ListItemMatch(<<"-", "b", ",", " ", "-", "-", "l", "o", "n", "g", "-", "o", "p", "t", "i", "o", "n", " ", "A", "R", "G">>, 23)

\* the position of the first colon of t after its first character, or 0
ClosingColon(t) ==
    IF \E i \in 2..Len(t) : t[i] = ":"
    THEN Least({i \in 2..Len(t) : t[i] = ":"}) ELSE 0

\* t is ":name:" followed by spaces or the end of the line, the name
\* starting with neither a colon nor a space and not ending with a space
FieldLine(t) ==
    /\ t # <<>>
    /\ t[1] = ":"
    /\ ClosingColon(t) > 2
    /\ t[2] # " "
    /\ t[ClosingColon(t) - 1] # " "
    /\ ClosingColon(t) = Len(t) \/ t[ClosingColon(t) + 1] = " "

\* C15: match_field accepts the lines of the form ":name:" followed by
\* spaces or the end of the line and no others, and returns the name with
\* its closing colon as key and the position after the spaces that follow
\* the closing colon as offset; ":field key:  field value" gives
\* ("field key:", 13).
C15_FieldMatch ==
    Called("match_field") =>
        /\ match[1].m =
              IF FieldLine(lines[1].text)
              THEN ListItemMatch(SubSeq(lines[1].text, 2, ClosingColon(lines[1].text)),
                                 AfterSpaces(lines[1].text, ClosingColon(lines[1].text)))
              ELSE None
        /\ lines[1].text = <<":", "f", "i", "e", "l", "d", " ", "k", "e", "y", ":", " ", " ", "f", "i", "e", "l", "d", " ", "v", "a", "l", "u", "e">>
              => match[1].m = ListItemMatch(<<"f", "i", "e", "l", "d", " ", "k", "e", "y", ":">>, 13)

\* match_field was called on ":key:" followed by three spaces and a text
C15_Witness ==
    /\ Called("match_field")
    /\ lines[1].text = <<":", "k", "e", "y", ":", " ", " ", " ", "x">>
    /\ match[1].m = ListItemMatch(<<"k", "e", "y", ":">>, 8)

\* what get and source return for every field of the store self of heap h
View(h, self) ==
    [f \in Sections \X Keys |->
        [get |-> Get(h, self, f[1], f[2]), source |-> SourceOf(h, self, f[1], f[2])]]

\* the view v with the fields that the view w has
Overlaid(v, w) ==
    [f \in Sections \X Keys |-> IF w[f].get # None THEN w[f] ELSE v[f]]

\* a step leaves what get and source return unchanged for the stores of N
Untouched(N) ==
    \A n \in N : View(heap', stores'[n]) = View(heap, stores[n])

\* C16: copy and update take values, not references: a copy returns what
\* its original returns, an updated store what it returned overlaid with
\* what the argument returns, and every call of set, unset, copy or update
\* leaves what get and source return for every other store unchanged,
\* whatever copy and update calls were made before.
C16_ValuesNotReferences ==
    [][/\ args'.op \in {"set", "unset"} => Untouched(StoreNames \ {args'.store})
       /\ args'.op = "copy" =>
             /\ View(heap', stores'[args'.store]) = View(heap, stores[args'.of])
             /\ Untouched(StoreNames \ {args'.store})
       /\ args'.op = "update" =>
             /\ View(heap', stores'[args'.store])
                   = Overlaid(View(heap, stores[args'.store]),
                              View(heap, stores[args'.of]))
             /\ Untouched(StoreNames \ {args'.store})]_vars

\* b is a copy of a, and a field of a has been set again since
C16_Witness ==
    /\ pc = "config"
    /\ [op |-> "copy", of |-> "a", to |-> "b"] \in calls
    /\ args.op = "set"
    /\ args.store = "a"
    /\ Get(heap, stores["a"], "s", "k") = Some("w")
    /\ SourceOf(heap, stores["a"], "s", "k") = Some(<<"cwd", "p">>)
    /\ Get(heap, stores["b"], "s", "k") = Some("v")
    /\ SourceOf(heap, stores["b"], "s", "k") = None

\* the order of the matchers: blank, nested block, container, admonition,
\* bullet or enumerated list, option list, field list, definition list,
\* paragraph
MatcherOrder ==
    <<"parse_blank", "parse_nested", "parse_container", "parse_admonition",
      "parse_bullet", "parse_option", "parse_field", "parse_definition",
      "parse_paragraph">>

\* the matchers that accept the lines lns, as positions of MatcherOrder
Accepting(lns) ==
    {i \in DOMAIN MatcherOrder : Apply(MatcherOrder[i], lns).matched}

\* C17: at every block start the block is built by the first matcher, in
\* the order of MatcherOrder, that accepts the lines left: the step of
\* parse_body is the step of that matcher, whatever later matchers accept
\* the lines too.
C17_FirstMatcherWins ==
    [][(pc = "parse" /\ Top(stack).src # <<>>)
          => /\ Accepting(Top(stack).src) # {}
             /\ [pc |-> pc', stack |-> stack']
                   = Dispatched(stack,
                                Some(Apply(MatcherOrder[Least(Accepting(Top(stack).src))],
                                           Top(stack).src)))]_vars

\* a bullet line followed by a more indented line, which the bullet, the
\* definition and the paragraph matcher accept, has started a bullet list
C17_Witness ==
    /\ pc = "parse"
    /\ Len(stack) = 2
    /\ stack[1].blocks = <<>>
    /\ Accepting(lines) = {5, 8, 9}
    /\ Top(stack).caller.fn = "parse_list"
    /\ Top(stack).caller.item_match = "match_bullet"
    /\ Top(stack).caller.items = <<>>

\* a step of parse_list starts an item: the first, in an iteration of a
\* parse_body loop, or a later one, when the parse_body call for the item
\* before it returns
ItemStarted ==
    /\ pc = "parse"
    /\ pc' = "parse"
    /\ Top(stack').caller.fn = "parse_list"
    /\ \/ Top(stack).src # <<>> /\ Len(stack') = Len(stack) + 1
       \/ Top(stack).src = <<>> /\ Len(stack') = Len(stack)

\* the lines item_match was called on in such a step
ItemSource ==
    IF Top(stack).src # <<>> THEN Top(stack).src ELSE Top(stack).caller.src

\* C18: no line that the container, admonition, bullet, option or field
\* matcher accepts is taken as the term of a definition-list item, be it
\* the first item of the list or a later one.
C18_DefinitionLast ==
    [][(ItemStarted /\ Top(stack').caller.item_match = "match_definition")
          => \A i \in 3..7 : ~Apply(MatcherOrder[i], ItemSource).matched]_vars

\* the term of the second item of a definition list is the line "- a",
\* which the bullet matcher accepts
C18_Witness ==
    /\ pc = "parse"
    /\ Top(stack).caller.fn = "parse_list"
    /\ Top(stack).caller.item_match = "match_definition"
    /\ Len(Top(stack).caller.items) = 1
    /\ Top(stack).caller.key = <<"-", " ", "a">>
    /\ match_bullet(<<Line(0, Top(stack).caller.key)>>) # None

\* the parse_body call for the body of a list item is about to return
ItemReturns ==
    /\ pc = "parse"
    /\ Len(stack) > 1
    /\ Top(stack).src = <<>>
    /\ Top(stack).caller.fn = "parse_list"

\* the items of the list with the item whose body is returned
ItemsSoFar ==
    Append(Top(stack).caller.items,
           [key |-> Top(stack).caller.key, body |-> Top(stack).blocks])

\* the item matcher of the list accepts the lines left after the item
SameMatcherAccepts ==
    /\ Top(stack).caller.src # <<>>
    /\ ItemMatch(Top(stack).caller.item_match, Top(stack).caller.src) # None

\* the step goes on with the next item of the same list
ListContinued ==
    /\ ItemStarted
    /\ Len(stack') = Len(stack)
    /\ Top(stack').caller.item_match = Top(stack).caller.item_match
    /\ Top(stack').caller.items = ItemsSoFar

\* the step closes the list and hands the lines left to the parse_body loop
\* that the list was found in
ListClosed ==
    /\ pc' = "parse"
    /\ Len(stack') = Len(stack) - 1
    /\ Top(stack').input = Top(Callers(stack)).input
    /\ Top(stack').src = Top(stack).caller.src
    /\ Top(stack').blocks # <<>>
    /\ Callers(Top(stack').blocks) = Top(Callers(stack)).blocks
    /\ Top(Top(stack').blocks).kind = "list"
    /\ Top(Top(stack').blocks).items = ItemsSoFar

\* C19: every item of a list is accepted by the item matcher of the list,
\* which gives its key; when the body of an item has been parsed the list
\* goes on if that matcher accepts the lines left, and otherwise is closed
\* with the items so far, the lines left, which start with a line of indent
\* 0 and a text that is not empty, going back to the parse_body loop.
C19_ListEndsOnMismatch ==
    [][/\ ItemStarted
            => /\ ItemMatch(Top(stack').caller.item_match, ItemSource) # None
               /\ Top(stack').caller.key
                     = ItemMatch(Top(stack').caller.item_match, ItemSource)[1].key
       /\ ItemReturns
            => /\ IF SameMatcherAccepts THEN ListContinued ELSE ListClosed
               /\ Top(stack).caller.src # <<>>
                     => /\ Top(stack).caller.src[1].indent = 0
                        /\ Top(stack).caller.src[1].text # <<>>]_vars

\* a bullet list of one item has been closed before a line that the bullet
\* matcher rejects and the definition matcher accepts
C19_Witness ==
    /\ pc = "parse"
    /\ Len(stack) = 1
    /\ Len(Top(stack).blocks) = 1
    /\ Top(stack).blocks[1].kind = "list"
    /\ ~Top(stack).blocks[1].vspace
    /\ Len(Top(stack).blocks[1].items) = 1
    /\ Top(stack).src # <<>>
    /\ match_bullet(Top(stack).src) = None
    /\ match_definition(Top(stack).src) # None

\* a is what is left of b when a prefix of one line or more is taken away
ProperSuffix(a, b) ==
    Len(a) < Len(b) /\ a = SubSeq(b, Len(b) - Len(a) + 1, Len(b))

\* the matcher t, called on lns, declines and returns lns, or matches and
\* returns a proper suffix of lns
DeclinesOrConsumes(t, lns) ==
    IF Apply(t, lns).matched THEN ProperSuffix(Apply(t, lns).src, lns)
    ELSE Apply(t, lns).src = lns

\* C20: at every block start each matcher either declines and returns the
\* lines as they are or matches and returns what is left of them after a
\* prefix of one line or more, the lines unmodified; the lines a matcher
\* that waits for a parse_body call will return, and the lines a parse_body
\* loop goes on with when a matcher has returned, are such a suffix of the
\* lines the loop had.
C20_PrefixConsumed ==
    /\ [](/\ pc # "unbounded"
          /\ (pc = "parse" /\ Top(stack).src # <<>>)
                => \A i \in DOMAIN transitions :
                      DeclinesOrConsumes(transitions[i], Top(stack).src)
          /\ \A k \in 2..Len(stack) :
                ProperSuffix(stack[k].caller.src, stack[k - 1].src))
    /\ [][\A k \in DOMAIN stack :
             (/\ k <= Len(stack')
              /\ stack'[k].input = stack[k].input
              /\ stack'[k].caller = stack[k].caller
              /\ stack'[k] # stack[k])
                => ProperSuffix(stack'[k].src, stack[k].src)]_vars

\* a bullet item has been taken from lines whose rest, a term with an
\* indented line, goes back to the parse_body loop unmodified
C20_Witness ==
    /\ pc = "parse"
    /\ Len(stack) = 1
    /\ Len(Top(stack).blocks) = 1
    /\ Top(stack).blocks[1].kind = "list"
    /\ Len(Top(stack).src) = 2
    /\ Top(stack).src[2].indent = 2
    /\ Top(stack).src = SubSeq(lines, 2, 3)

(***************************************************************************)
(* C21.  nested_block takes line 0 whatever it is when shift_first is      *)
(* given, then every following line that is blank or has an indent above   *)
(* 0, and stops at the first non-blank line of indent 0.  The lines left   *)
(* are the lines after the run: none, or lines that start with a non-blank *)
(* line of indent 0.  A blank line inside the run does not end it.  The    *)
(* block is the run without the blank lines at its start and end, which    *)
(* are in neither the block nor the lines left.                            *)
(***************************************************************************)
\* the index of the first line of lines the scan looks at
ScanFrom == IF nested[1].shift_first # None THEN 2 ELSE 1

\* the indices of the lines that end the run
Stops == {i \in ScanFrom..Len(lines) : lines[i].text # <<>> /\ lines[i].indent = 0}

\* the number of lines of the run
RunLength == IF Stops = {} THEN Len(lines) ELSE Least(Stops) - 1

\* the text of the i-th line of the run as the block has it
RunText(i) ==
    IF i = 1 /\ nested[1].shift_first # None
    THEN Drop(lines[1].text, nested[1].shift_first[1]) ELSE lines[i].text

\* the lines of the run that are not blank in the block
RunInked == {i \in 1..RunLength : RunText(i) # <<>>}

C21_RunConsumed ==
    nested # None =>
        /\ nested[1].src = SubSeq(lines, RunLength + 1, Len(lines))
        /\ \/ nested[1].src = <<>>
           \/ nested[1].src[1].text # <<>> /\ nested[1].src[1].indent = 0
        /\ IF RunInked = {} THEN nested[1].block = <<>>
           ELSE /\ Len(nested[1].block) = Greatest(RunInked) - Least(RunInked) + 1
                /\ \A k \in DOMAIN nested[1].block :
                      nested[1].block[k].text = RunText(Least(RunInked) + k - 1)

\* a run given with shift_first that starts at a line of indent 0, has a
\* blank line inside and one at its end, and is followed by other lines
C21_Witness ==
    /\ nested # None
    /\ nested[1].shift_first # None
    /\ Len(lines) = 5
    /\ lines[2].text = <<>>
    /\ lines[3].text # <<>>
    /\ lines[4].text = <<>>
    /\ nested[1].src = <<lines[5]>>
    /\ Len(nested[1].block) = 3

(***************************************************************************)
(* C22.  After nested_block with strip_indent the indents of the block are *)
(* relative to the block: the least indent of the non-blank lines of the   *)
(* run, line 0 left out when shift_first is given, is 0 in the block; two  *)
(* such lines are as far apart as they are in src; with shift_first line 0 *)
(* has indent 0 and the text of src without its first shift_first          *)
(* characters, unless nothing is left of that text.  So a block that is    *)
(* not empty has a non-blank line of indent 0 and begins and ends with a   *)
(* non-blank line.                                                         *)
(***************************************************************************)
\* the non-blank lines of the run other than a line 0 given with shift_first
RunOthers == {i \in ScanFrom..RunLength : lines[i].text # <<>>}

\* the line of the block that the i-th line of the run has become
InBlock(i) == nested[1].block[i - Least(RunInked) + 1]

C22_RelativeIndent ==
    nested # None /\ nested[1].strip_indent =>
        /\ RunOthers # {} => \E i \in RunOthers : InBlock(i).indent = 0
        /\ \A i, j \in RunOthers :
              /\ InBlock(i).indent >= 0
              /\ InBlock(i).indent - InBlock(j).indent
                    = lines[i].indent - lines[j].indent
        /\ nested[1].shift_first # None /\ RunText(1) # <<>> =>
              nested[1].block[1] = Line(0, RunText(1))
        /\ nested[1].block # <<>> =>
              /\ \E k \in DOMAIN nested[1].block :
                    /\ nested[1].block[k].text # <<>>
                    /\ nested[1].block[k].indent = 0
              /\ nested[1].block[1].text # <<>>
              /\ nested[1].block[Len(nested[1].block)].text # <<>>

\* an item of a list with two body lines of different indents, both above 0
C22_Witness ==
    /\ nested # None
    /\ nested[1].strip_indent
    /\ nested[1].shift_first = Some(2)
    /\ lines = <<Line(0, <<"-", " ", "d">>), Line(4, <<"c">>), Line(2, <<"b">>)>>
    /\ nested[1].block = <<Line(0, <<"d">>), Line(2, <<"c">>), Line(0, <<"b">>)>>

(***************************************************************************)
(* C23.  Every line held during a call of format_rst, by the preprocessor  *)
(* or by a call of parse_body after nested_block has re-based it, has an   *)
(* indent of 0 or more, and a blank line has indent 0 and the text "".     *)
(***************************************************************************)
WellFormed(l) ==
    /\ l.indent >= 0
    /\ l.text = <<>> => l.indent = 0

\* the lines the calls of parse_body on the stack hold
Held ==
    {lines[i] : i \in DOMAIN lines}
        \cup UNION {{stack[k].src[i] : i \in DOMAIN stack[k].src} : k \in DOMAIN stack}
        \cup UNION {{stack[k].input[i] : i \in DOMAIN stack[k].input} : k \in DOMAIN stack}
        \cup UNION {{stack[k].caller.src[i] : i \in DOMAIN stack[k].caller.src} :
                        k \in DOMAIN stack}

C23_NonNegativeIndent == \A l \in Held : WellFormed(l)

\* the body of a list item, re-based by nested_block, is being parsed and
\* holds a blank line of a negative indent
C23_Witness ==
    /\ pc = "parse"
    /\ Len(stack) = 2
    /\ \A i \in DOMAIN lines : WellFormed(lines[i])
    /\ \E i \in DOMAIN Top(stack).input :
          /\ Top(stack).input[i].text = <<>>
          /\ Top(stack).input[i].indent < 0

(***************************************************************************)
(* C24.  The key column of a list is as wide as its longest key and        *)
(* min_space, and at most max_keywidth where the list has one (14 for      *)
(* option and field lists, 2 for definition lists, none for bullet         *)
(* lists).  The bodies of all items of the list are rendered at the column *)
(* len(indent) + keywidth, so the body of an item of an option or field    *)
(* list never starts beyond the column len(indent) + 14.                   *)
(***************************************************************************)
ListKeys(b) == {b.items[i].key : i \in DOMAIN b.items}

\* max_keywidth as parse_bullet, parse_option, parse_field and
\* parse_definition give it with their min_space and vspace
Cap(b) ==
    IF b.min_space = 1 THEN None ELSE IF b.vspace THEN Some(2) ELSE Some(14)

Widest(b) == Greatest({Len(k) : k \in ListKeys(b)}) + b.min_space

ExpectedKeyWidth(b) ==
    IF Cap(b) # None /\ Cap(b)[1] < Widest(b) THEN Cap(b)[1] ELSE Widest(b)

BodyColumn(b) == Len(args.indent) + b.keywidth

\* the items of the list b are made of paragraphs
OfParagraphs(b) ==
    \A i \in DOMAIN b.items : \A j \in DOMAIN b.items[i].body :
        /\ b.items[i].body[j].kind = "paragraph"
        /\ b.items[i].body[j].literal = None

\* l is a line of the rendered list b: blank, a key alone on its line, the
\* padded key of an item without a body, or body text that starts at the
\* body column after spaces or a padded key
AtBodyColumn(b, l) ==
    \/ l = <<>>
    \/ \E i \in DOMAIN b.items :
          /\ b.items[i].body = <<>>
          /\ l = args.indent \o LJust(b.items[i].key, b.keywidth)
    \/ \E k \in ListKeys(b) :
          /\ Len(k) + b.min_space > b.keywidth
          /\ l = args.indent \o k
    \/ /\ Len(l) > BodyColumn(b)
       /\ l[BodyColumn(b) + 1] # " "
       /\ \/ Take(l, BodyColumn(b)) = Spaces(BodyColumn(b))
          \/ \E k \in ListKeys(b) :
                /\ Len(k) + b.min_space <= b.keywidth
                /\ Take(l, BodyColumn(b))
                      = args.indent \o k \o Spaces(b.keywidth - Len(k))

\* the lines of the list b as the last call of the closure rendered it
ListLines(b) == SplitLines(List_(b, args.width, args.indent, args.keep))

ItemContents(b) ==
    SelectSeq(ListResult(b, b.items, <<>>, args.width, args.indent, args.keep),
              LAMBDA c : c # <<>>)

\* the rendered body of the i-th item of b
ItemBody(b, i) ==
    Body(b.items[i].body, args.width, args.indent \o Spaces(b.keywidth), args.keep)

\* the characters of s that are not whitespace
Ink(s) == SelectSeq(s, LAMBDA c : c \notin Whitespace)

KeyAlone(b, i) == Len(b.items[i].key) + b.min_space > b.keywidth

\* content is the i-th item of b as rendered from its key and its body
Spliced(b, i, content, body) ==
    IF KeyAlone(b, i)
    THEN content = args.indent \o b.items[i].key \o <<"\n">> \o body
    ELSE /\ Take(content, BodyColumn(b))
              = args.indent \o b.items[i].key
                    \o Spaces(b.keywidth - Len(b.items[i].key))
         /\ body = Take(body, BodyColumn(b)) \o Drop(content, BodyColumn(b))
         /\ Inked(Take(body, BodyColumn(b))) = {}
         /\ Ink(content) = Ink(b.items[i].key) \o Ink(body)
         /\ body # <<>> => Take(body, BodyColumn(b)) = Spaces(BodyColumn(b))

C25_ItemSplice ==
    pc = "done" =>
        \A n \in DOMAIN blocks :
            blocks[n].kind = "list" =>
                /\ Len(ItemContents(blocks[n])) = Len(blocks[n].items)
                /\ \A i \in DOMAIN blocks[n].items :
                      /\ Spliced(blocks[n], i, ItemContents(blocks[n])[i],
                                 ItemBody(blocks[n], i))
                      /\ Cap(blocks[n]) = None => ~KeyAlone(blocks[n], i)

\* a bullet item that holds an empty container, which is kept, and the
\* paragraph "e": the rendered body starts with the empty text of the
\* container and a blank line, and the key line holds the "e" two columns to
\* the right of the body column
C25_Witness ==
    /\ pc = "done"
    /\ args.indent = <<>>
    /\ args.keep = None
    /\ Len(blocks) = 1
    /\ blocks[1].kind = "list"
    /\ blocks[1].keywidth = 2
    /\ Len(blocks[1].items) = 1
    /\ blocks[1].items[1].body # <<>>
    /\ blocks[1].items[1].body[1].kind = "container"
    /\ ItemBody(blocks[1], 1) = <<"\n", "\n", " ", " ", "e">>
    /\ out = <<"-", " ", " ", " ", "e">>

(***************************************************************************)
(* C26.  Two adjacent items of a rendered list have a blank line between   *)
(* them when the list has vspace or when the rendered body of one of the   *)
(* two holds a blank line: an item of several paragraphs is set off from   *)
(* the item before it and from the item after it.  The items of a          *)
(* definition list, which has vspace, always have a blank line between     *)
(* them.                                                                   *)
(***************************************************************************)
\* the list result of list_ in the last call of the closure: the rendered
\* items and the "" put between them
ListParts(b) ==
    ListResult(b, b.items, <<>>, args.width, args.indent, args.keep)

\* the index in ListParts(b) of the i-th item
ItemAt(b, i) ==
    CHOOSE p \in DOMAIN ListParts(b) :
        /\ ListParts(b)[p] # <<>>
        /\ Cardinality({q \in 1..p : ListParts(b)[q] # <<>>}) = i

\* there is a blank line between the i-th item and the next
Separated(b, i) == ItemAt(b, i + 1) = ItemAt(b, i) + 2

MultiParagraph(b, i) == Contains(ItemBody(b, i), <<"\n", "\n">>)

C26_BlankBetweenItems ==
    pc = "done" =>
        \A n \in DOMAIN blocks :
            blocks[n].kind = "list" =>
                \A i \in 1..(Len(blocks[n].items) - 1) :
                    (\/ blocks[n].vspace
                     \/ MultiParagraph(blocks[n], i)
                     \/ MultiParagraph(blocks[n], i + 1))
                        => Separated(blocks[n], i)

\* a bullet item of one paragraph followed by one of two: no blank line
\* between the two
C26_Witness ==
    /\ pc = "done"
    /\ args.indent = <<>>
    /\ Len(blocks) = 1
    /\ blocks[1].kind = "list"
    /\ Len(blocks[1].items) = 2
    /\ ~MultiParagraph(blocks[1], 1)
    /\ MultiParagraph(blocks[1], 2)
    /\ ~Separated(blocks[1], 1)
    /\ out = <<"-", " ", "a", "\n", "-", " ", "b", "\n", "\n", " ", " ", "c">>

(***************************************************************************)
(* C27.  A paragraph is the lines up to the next blank line, joined and    *)
(* with the inline markup replaced.  If that text does not end in "::" it  *)
(* is rendered as it is and no further line is taken.  If it ends in "::"  *)
(* the nested block that follows is taken as a literal block, and of the   *)
(* text nothing is rendered when it is "::", the text without its last     *)
(* three characters when it ends in " ::", and else the text without its   *)
(* last colon, which leaves a colon at its end.                            *)
(***************************************************************************)
\* the number of lines of lns before its first blank line
RunEnd(lns) ==
    IF \A i \in DOMAIN lns : lns[i].text # <<>> THEN Len(lns)
    ELSE Least({i \in DOMAIN lns : lns[i].text = <<>>}) - 1

ParagraphText(lns) == ParseInline(SubSeq(lns, 1, RunEnd(lns)))

AfterRun(lns) == SubSeq(lns, RunEnd(lns) + 1, Len(lns))

\* the number of lines of the nested block at the start of lns
NestedEnd(lns) ==
    IF \A i \in DOMAIN lns : lns[i].text = <<>> \/ lns[i].indent > 0 THEN Len(lns)
    ELSE Least({i \in DOMAIN lns : lns[i].text # <<>> /\ lns[i].indent <= 0}) - 1

\* a step of parse_body that added a paragraph to the blocks of the
\* innermost call
ParagraphStep ==
    /\ pc = "parse"
    /\ pc' = "parse"
    /\ Len(stack') = Len(stack)
    /\ Len(Top(stack').blocks) = Len(Top(stack).blocks) + 1
    /\ Top(stack').blocks[Len(Top(stack').blocks)].kind = "paragraph"

\* the text of the paragraph b is rendered as text, before anything else
RendersText(b, text) ==
    \A width \in Widths, indent \in Indents :
        /\ StartsWith(Paragraph(b, width, indent), Wrap(text, width, indent))
        /\ b.literal = None => Paragraph(b, width, indent) = Wrap(text, width, indent)

\* nothing but literal lines is rendered for the paragraph b
RendersNoText(b) ==
    \A width \in Widths, indent \in Indents :
        \A n \in DOMAIN SplitLines(Paragraph(b, width, indent)) :
            \/ SplitLines(Paragraph(b, width, indent))[n] = <<>>
            \/ StartsWith(SplitLines(Paragraph(b, width, indent))[n],
                          indent \o <<" ", " ">>)

\* the paragraph b and the lines left are what the lines lns give
ParagraphOf(lns, text, b, left) ==
    IF ~EndsWith(text, <<":", ":">>)
    THEN /\ b.para = Some(text)
         /\ b.literal = None
         /\ left = AfterRun(lns)
         /\ RendersText(b, text)
    ELSE /\ b.literal # None
         /\ left = SubSeq(AfterRun(lns), NestedEnd(AfterRun(lns)) + 1,
                          Len(AfterRun(lns)))
         /\ Len(b.literal[1]) <= NestedEnd(AfterRun(lns))
         /\ \A i \in 1..NestedEnd(AfterRun(lns)) :
               AfterRun(lns)[i].text # <<>> =>
                   \E k \in DOMAIN b.literal[1] :
                       b.literal[1][k].text = AfterRun(lns)[i].text
         /\ IF text = <<":", ":">>
            THEN b.para = None /\ RendersNoText(b)
            ELSE IF EndsWith(text, <<" ", ":", ":">>)
            THEN /\ b.para = Some(SubSeq(text, 1, Len(text) - 3))
                 /\ RendersText(b, SubSeq(text, 1, Len(text) - 3))
            ELSE /\ b.para = Some(SubSeq(text, 1, Len(text) - 1))
                 /\ b.para[1][Len(b.para[1])] = ":"
                 /\ RendersText(b, SubSeq(text, 1, Len(text) - 1))

C27_LiteralMarker ==
    [][ParagraphStep =>
          ParagraphOf(Top(stack).src, ParagraphText(Top(stack).src),
                      Top(stack').blocks[Len(Top(stack').blocks)],
                      Top(stack').src)]_vars

\* the paragraph "a" "::" of two lines with a literal block of two lines
\* after it and a paragraph after that: the text is "a", the literal block
\* is taken, the last paragraph is left
C27_Witness ==
    /\ pc = "parse"
    /\ Len(stack) = 1
    /\ lines = <<Line(0, <<"a">>), Line(0, <<":", ":">>), Line(0, <<>>),
                 Line(2, <<"x">>), Line(0, <<"b">>)>>
    /\ Top(stack).blocks
          = <<[kind |-> "paragraph", para |-> Some(<<"a">>),
               literal |-> Some(<<Line(0, <<"x">>)>>)]>>
    /\ Top(stack).src = <<Line(0, <<"b">>)>>

(***************************************************************************)
(* C28.  A block that starts with a line ".. <keyword>::", for one of the  *)
(* nine keywords in any case, is parsed as an admonition: its body is what *)
(* is left of the line after the "::" and the nested block that follows.   *)
(* It renders as the title of the keyword at the indent, a newline, and    *)
(* the body at the indent and two spaces more.                             *)
(***************************************************************************)
\* the keyword of the directive line of the source
Keyword ==
    CHOOSE k \in Keywords :
        StartsWith(LowerStr(lines[1].text), <<".", ".", " ">> \o k \o <<":", ":">>)

\* the title of the keyword k: the capitalised keyword and ":" or "!"
Title(k) ==
    <<ToUpper(k[1])>> \o Tail(k)
        \o (IF k \in {<<"d", "a", "n", "g", "e", "r">>, <<"w", "a", "r", "n", "i", "n", "g">>} THEN <<"!">> ELSE <<":">>)

\* the text of the directive line after the "::" and the spaces there
DirectiveRest == LStrip(Drop(lines[1].text, Len(Keyword) + 5))

\* the texts of the body: of the rest of the line and of the lines of the
\* nested block after it
BodyTexts ==
    <<DirectiveRest>>
        \o [i \in 1..NestedEnd(Tail(lines)) |-> lines[i + 1].text]

BodyInked == {i \in DOMAIN BodyTexts : BodyTexts[i] # <<>>}

\* the lines lns are the body, without the blank lines at its ends
IsBody(lns) ==
    IF BodyInked = {} THEN lns = <<>>
    ELSE /\ Len(lns) = Greatest(BodyInked) - Least(BodyInked) + 1
         /\ \A i \in DOMAIN lns : lns[i].text = BodyTexts[Least(BodyInked) + i - 1]
         /\ lns[1].indent = 0

\* the first block of the source is being parsed: no block is finished
FirstBlock == pc = "parse" /\ Len(stack) >= 2 /\ stack[1].blocks = <<>>

C28_Admonition ==
    /\ FirstBlock =>
          /\ stack[2].caller.fn = "parse_admonition"
          /\ stack[2].caller.title = Title(Keyword)
          /\ IsBody(stack[2].input)
          /\ stack[2].caller.src
                = SubSeq(lines, NestedEnd(Tail(lines)) + 2, Len(lines))
    /\ pc = "done" =>
          /\ blocks[1].kind = "admonition"
          /\ StartsWith(out,
                        args.indent \o Title(Keyword) \o <<"\n">>
                            \o Body(blocks[1].body, args.width,
                                    args.indent \o <<" ", " ">>, args.keep))
          /\ DirectiveRest # <<>> =>
                StartsWith(SplitLines(out)[2],
                           args.indent \o <<" ", " ", DirectiveRest[1]>>)

\* ".. WARNING:: x" with an indented line and a paragraph after it
C28_Witness ==
    /\ pc = "done"
    /\ args.width = 80
    /\ args.indent = <<" ", " ">>
    /\ source = Unlines(<<<<".", ".", " ", "W", "A", "R", "N", "I", "N", "G", ":", ":", " ", "x">>, <<" ", " ", " ", "y">>, <<"b">>>>)
    /\ out = <<" ", " ", "W", "a", "r", "n", "i", "n", "g", "!", "\n", " ", " ", " ", " ", "x", " ", "y", "\n", "\n", " ", " ", "b">>

(***************************************************************************)
(* C29.  Whenever the lines left to parse_body start with a line that      *)
(* begins with ".. container::" and a blank line after it, the block is    *)
(* parsed as a container, named by the text after the marker and with the  *)
(* nested block that follows as its body, however many lines follow the    *)
(* blank line, none included.                                              *)
(***************************************************************************)
\* the lines lns start with a container directive and a blank line
ContainerOpens(lns) ==
    /\ Len(lns) >= 2
    /\ lns[1].indent = 0
    /\ StartsWith(lns[1].text, ContainerMarker)
    /\ lns[2].text = <<>>

C29_ContainerAtEnd ==
    [][(pc = "parse" /\ Top(stack).src # <<>> /\ ContainerOpens(Top(stack).src))
          => /\ pc' = "parse"
             /\ Len(stack') = Len(stack) + 1
             /\ Top(stack').caller.fn = "parse_container"
             /\ Top(stack').caller.name = Strip(Drop(Top(stack).src[1].text, 14))]_vars

\* ".. container:: verbose" and a blank line, formatted with an empty keep:
\* the directive is rendered as a paragraph
C29_Witness ==
    /\ Formatted(Unlines(<<ContainerLine(Verbose), <<>>>>))
    /\ args.keep = Some({})
    /\ Len(blocks) = 1
    /\ blocks[1].kind = "paragraph"
    /\ out = ContainerLine(Verbose)

(***************************************************************************)
(* C30.  The inline markup of a paragraph is replaced once, in the text of *)
(* its joined lines: first every pair of backquotes by a double quote,     *)
(* then, from left to right and without overlap, every interpreted text of *)
(* the role code, with the role before or after it, by its text in double  *)
(* quotes, where the text between the backquotes is made of word           *)
(* characters only; an interpreted text with any other character, such as  *)
(* a space, is left as it is.                                              *)
(***************************************************************************)
\* at position q of s, pre, n word characters and tail follow each other
WordOccurs(pre, tail, s, q, n) ==
    /\ StartsWith(Drop(s, q), pre)
    /\ \A i \in 1..n : s[q + Len(pre) + i] \in WordChars
    /\ StartsWith(Drop(s, q + Len(pre) + n), tail)

\* the pairs <<q, n>> of the occurrences in s
WordOccurrences(pre, tail, s) ==
    {qn \in (0..Len(s)) \X (1..Len(s)) :
        /\ qn[1] + Len(pre) + qn[2] + Len(tail) <= Len(s)
        /\ WordOccurs(pre, tail, s, qn[1], qn[2])}

\* s with its occurrences replaced from left to right
RECURSIVE WordQuoted(_, _, _)
WordQuoted(pre, tail, s) ==
    IF WordOccurrences(pre, tail, s) = {} THEN s
    ELSE Let(CHOOSE qn \in WordOccurrences(pre, tail, s) :
                 \A rm \in WordOccurrences(pre, tail, s) : qn[1] <= rm[1],
             LAMBDA first :
                 Take(s, first[1]) \o <<"\"">>
                     \o SubSeq(s, first[1] + Len(pre) + 1,
                               first[1] + Len(pre) + first[2])
                     \o <<"\"">>
                     \o WordQuoted(pre, tail,
                                   Drop(s, first[1] + Len(pre) + first[2] + Len(tail))))

RolePrefix == <<":", "c", "o", "d", "e", ":", Backtick>>

RoleSuffix == <<Backtick, ":", "c", "o", "d", "e", ":">>

\* the text of the lines of the source, joined by spaces
JoinedText == Join(<<" ">>, [i \in DOMAIN lines |-> lines[i].text])

\* the joined text with its inline markup replaced as stated
InlineAsStated ==
    WordQuoted(<<Backtick>>, RoleSuffix,
               WordQuoted(RolePrefix, <<Backtick>>,
                          Replace(JoinedText, <<Backtick, Backtick>>, <<"\"">>)))

C30_WordContentOnly ==
    (pc = "done" /\ Len(blocks) = 1 /\ blocks[1].kind = "paragraph")
        => out = Wrap(InlineAsStated, args.width, args.indent)

\* the one line :code: and "a b" between backquotes is rendered as "a b"
\* between double quotes
C30_Witness ==
    /\ Formatted(Unlines(<<<<":", "c", "o", "d", "e", ":", Backtick, "a", " ", "b", Backtick>>>>))
    /\ InlineAsStated = <<":", "c", "o", "d", "e", ":", Backtick, "a", " ", "b", Backtick>>
    /\ out = <<"\"", "a", " ", "b", "\"">>
====
